---- MODULE Spec2Model ----
(***************************************************************************)
(* Connection resolution of the Plex photo client:                         *)
(*   resourceToServer      (src/src/services/authService.ts)               *)
(*   testServerConnection, filterAccessibleServers, fetchWithTimeout,      *)
(*   fetchWithFallback, getWorkingServerUrl                                *)
(*                         (src/src/services/plexService.ts)               *)
(* A URI string is modelled by its three parts <<scheme, host, port>>, so  *)
(* that the synthesized `${scheme}://${address}:${port}` can be compared   *)
(* with the uri strings of the connections.                                *)
(***************************************************************************)
EXTENDS Integers, Sequences, FiniteSets, TLC

VARIABLES
    resources,          \* upstream resource list: server id -> PlexResource
    servers,            \* PlexServer descriptors built from the resources
    network,            \* what a fetch of each base URI would end with now
    workingServerUrl,   \* plexService.ts:37, the process-wide cached endpoint
    cacheRaced,         \* history: the cache content was written over a concurrent write
    calls,              \* the fetchWithFallback calls in flight or finished
    probes,             \* the testServerConnection calls, one slot per server
    filter,             \* the filterAccessibleServers call: input, Promise.all slots, result
    hook,               \* useFolderCounts: its props, its state and its requests in flight
    timeline,           \* PhotosScreen: its state and its requests in flight
    auth,               \* AuthContext.tsx:61, the AuthState
    secureStore,        \* expo-secure-store: key -> stored value
    session             \* this run of the app: loadSavedAuth done, login in flight, last operation

resolverVars ==
    <<resources, servers, network, workingServerUrl, cacheRaced, calls, probes, filter>>
appVars == <<hook, timeline, auth, secureStore, session>>
vars == <<resources, servers, network, workingServerUrl, cacheRaced, calls, probes, filter,
          hook, timeline, auth, secureStore, session>>

----------------------------------------------------------------------------
(* Bounds of the model *)

\* longest connection list plex.tv returns for a server
MaxConns == 3

\* fetchWithFallback calls that can be in flight at the same time
CallIds == {1, 2}
ServerIds == {"A", "B"}

\* workingServerUrl = null; also "no response"
NoUri == <<>>

----------------------------------------------------------------------------
(* Inputs: the connections plex.tv can list for a server *)

ConnLocal ==
    [protocol |-> "http", address |-> "10.0.0.5", port |-> 32400, local |-> TRUE,
     uri |-> <<"http", "10.0.0.5", 32400>>]
ConnRemoteA ==
    [protocol |-> "https", address |-> "203.0.113.5", port |-> 32400, local |-> FALSE,
     uri |-> <<"https", "203-0-113-5.plex.direct", 32400>>]
ConnRemoteB ==
    [protocol |-> "https", address |-> "relay.plex.tv", port |-> 8443, local |-> FALSE,
     uri |-> <<"https", "relay.plex.tv", 8443>>]
ConnOther ==
    [protocol |-> "https", address |-> "198.51.100.7", port |-> 32400, local |-> FALSE,
     uri |-> <<"https", "198.51.100.7", 32400>>]

ConnLocalB ==
    [protocol |-> "http", address |-> "172.17.0.2", port |-> 32400, local |-> TRUE,
     uri |-> <<"http", "172-17-0-2.plex.direct", 32400>>]

PoolA == {ConnLocal, ConnRemoteA, ConnRemoteB, ConnLocalB}

\* all sequences without repetition over S of length at most n: plex.tv
\* lists a connection, and so a uri, once per resource
RECURSIVE SeqsNoRep(_, _)
SeqsNoRep(S, n) ==
    IF n = 0 THEN {<<>>}
    ELSE LET shorter == SeqsNoRep(S, n - 1)
         IN  shorter \cup
             {Append(q, x) : <<q, x>> \in
                 {p \in shorter \X S : \A i \in 1..Len(p[1]) : p[1][i] # p[2]}}

Range(q) == {q[i] : i \in 1..Len(q)}

----------------------------------------------------------------------------
(* authService.ts: resourceToServer *)

\* the `provides !== 'server'` / no-connections result
NoServer == [name |-> "none", address |-> "", port |-> 0, scheme |-> "",
             machineIdentifier |-> "", connectionUris |-> <<>>]

\* the comparator with its sign inverted: local first
compareConnectionsLocalFirst(a, b) ==
    IF a.local = b.local THEN 0
    ELSE IF a.local THEN -1 ELSE 1

\* the comparator of the sort: non-local first
compareConnections(a, b) ==
    IF a.local = b.local THEN 0
    ELSE IF a.local THEN 1 ELSE -1

\* Array.prototype.sort is stable: an element goes after every element that
\* does not compare greater
RECURSIVE insertSorted(_, _)
insertSorted(c, sorted) ==
    IF sorted = <<>> THEN <<c>>
    ELSE IF compareConnections(c, Head(sorted)) < 0 THEN <<c>> \o sorted
    ELSE <<Head(sorted)>> \o insertSorted(c, Tail(sorted))

RECURSIVE sortedConnections(_)
sortedConnections(connections) ==
    IF connections = <<>> THEN <<>>
    ELSE insertSorted(connections[Len(connections)],
                      sortedConnections(SubSeq(connections, 1, Len(connections) - 1)))

\* resourceToServer without the check of line 134: a server resource without
\* connections yields a descriptor with nothing to try
resourceToServerKeepsEmpty(resource) ==
    IF resource.provides # "server" THEN NoServer
    ELSE IF Len(resource.connections) = 0
         THEN [name |-> resource.name, address |-> "", port |-> 0, scheme |-> "",
               machineIdentifier |-> resource.clientIdentifier, connectionUris |-> <<>>]
    ELSE LET sorted == sortedConnections(resource.connections)
             bestConnection == sorted[1]
         IN  [name |-> resource.name,
              address |-> bestConnection.address,
              port |-> bestConnection.port,
              scheme |-> bestConnection.protocol,
              machineIdentifier |-> resource.clientIdentifier,
              connectionUris |-> [i \in 1..Len(sorted) |-> sorted[i].uri]]

resourceToServer(resource) ==
    IF resource.provides # "server" THEN NoServer
    ELSE IF Len(resource.connections) = 0 THEN NoServer
    ELSE LET sorted == sortedConnections(resource.connections)
             bestConnection == sorted[1]
         IN  [name |-> resource.name,
              address |-> bestConnection.address,
              port |-> bestConnection.port,
              scheme |-> bestConnection.protocol,
              machineIdentifier |-> resource.clientIdentifier,
              connectionUris |-> [i \in 1..Len(sorted) |-> sorted[i].uri]]

\* a descriptor restored from old saved data: no connectionUris field
\* (plexService.ts:148 "connectionUris might be undefined (old saved data)")
LegacyServer ==
    [name |-> "B", address |-> ConnOther.address, port |-> ConnOther.port,
     scheme |-> ConnOther.protocol, machineIdentifier |-> "B",
     connectionUris |-> <<>>]

Resource(id, conns) ==
    [name |-> id, provides |-> "server", clientIdentifier |-> id,
     connections |-> conns]

----------------------------------------------------------------------------
(* plexService.ts: URI list of fetchWithFallback *)

getServerUrl(server) == <<server.scheme, server.address, server.port>>

includes(q, x) == \E i \in 1..Len(q) : q[i] = x

\* BuildUrisToTry without the filter of line 159
BuildUrisToTryNoFilter(server, silent, working) ==
    LET connectionUris == server.connectionUris
        fallbackUrl == getServerUrl(server)
        pushFallback(q) == IF includes(q, fallbackUrl) THEN q ELSE Append(q, fallbackUrl)
    IN  IF working # NoUri
        THEN IF silent THEN <<working>>
             ELSE pushFallback(<<working>> \o connectionUris)
        ELSE IF Len(connectionUris) > 0
             THEN pushFallback(connectionUris)
             ELSE <<fallbackUrl>>

\* BuildUrisToTry without the silent branch of lines 156-157
BuildUrisToTryNoSilent(server, silent, working) ==
    LET connectionUris == server.connectionUris
        fallbackUrl == getServerUrl(server)
        notWorking(u) == u # working
        pushFallback(q) == IF includes(q, fallbackUrl) THEN q ELSE Append(q, fallbackUrl)
    IN  IF working # NoUri
        THEN pushFallback(<<working>> \o SelectSeq(connectionUris, notWorking))
        ELSE IF Len(connectionUris) > 0
             THEN pushFallback(connectionUris)
             ELSE <<fallbackUrl>>

\* BuildUrisToTry that never scans once an endpoint is cached
BuildUrisToTryCachedOnly(server, silent, working) ==
    LET connectionUris == server.connectionUris
        fallbackUrl == getServerUrl(server)
        pushFallback(q) == IF includes(q, fallbackUrl) THEN q ELSE Append(q, fallbackUrl)
    IN  IF working # NoUri THEN <<working>>
        ELSE IF Len(connectionUris) > 0
             THEN pushFallback(connectionUris)
             ELSE <<fallbackUrl>>

\* BuildUrisToTry that puts the synthesized fallback before the candidates
BuildUrisToTryFallbackFirst(server, silent, working) ==
    LET connectionUris == server.connectionUris
        fallbackUrl == getServerUrl(server)
        notWorking(u) == u # working
        notFallback(u) == u # fallbackUrl
    IN  IF working # NoUri
        THEN IF silent THEN <<working>>
             ELSE <<working>> \o (IF fallbackUrl # working THEN <<fallbackUrl>> ELSE <<>>)
                    \o SelectSeq(SelectSeq(connectionUris, notWorking), notFallback)
        ELSE <<fallbackUrl>> \o SelectSeq(connectionUris, notFallback)

\* BuildUrisToTry without the else branch of lines 170-172: nothing to try
\* for a descriptor without connection URIs
BuildUrisToTryNoSynthesized(server, silent, working) ==
    LET connectionUris == server.connectionUris
        fallbackUrl == getServerUrl(server)
        notWorking(u) == u # working
        pushFallback(q) == IF includes(q, fallbackUrl) THEN q ELSE Append(q, fallbackUrl)
    IN  IF working # NoUri
        THEN IF silent THEN <<working>>
             ELSE pushFallback(<<working>> \o SelectSeq(connectionUris, notWorking))
        ELSE IF Len(connectionUris) > 0
             THEN pushFallback(connectionUris)
             ELSE <<>>

\* BuildUrisToTry in which a silent call never scans: with nothing cached it
\* tries the first candidate only
BuildUrisToTrySilentNeverScans(server, silent, working) ==
    LET connectionUris == server.connectionUris
        fallbackUrl == getServerUrl(server)
        notWorking(u) == u # working
        pushFallback(q) == IF includes(q, fallbackUrl) THEN q ELSE Append(q, fallbackUrl)
    IN  IF working # NoUri
        THEN IF silent THEN <<working>>
             ELSE pushFallback(<<working>> \o SelectSeq(connectionUris, notWorking))
        ELSE IF Len(connectionUris) > 0
             THEN IF silent THEN <<connectionUris[1]>> ELSE pushFallback(connectionUris)
             ELSE <<fallbackUrl>>

\* lines 149-172: the ordered list of base URIs of one call
BuildUrisToTry(server, silent, working) ==
    LET connectionUris == server.connectionUris
        fallbackUrl == getServerUrl(server)
        notWorking(u) == u # working
        pushFallback(q) == IF includes(q, fallbackUrl) THEN q ELSE Append(q, fallbackUrl)
    IN  IF working # NoUri
        THEN IF silent THEN <<working>>
             ELSE pushFallback(<<working>> \o SelectSeq(connectionUris, notWorking))
        ELSE IF Len(connectionUris) > 0
             THEN pushFallback(connectionUris)
             ELSE <<fallbackUrl>>

----------------------------------------------------------------------------
(* plexService.ts: one HTTP attempt, fetchWithTimeout *)

\* fetchWithFallback's default timeout (line 145)
DefaultTimeoutMs == 10000
\* getFolderItemCount's timeout for its silent request (line 613)
SilentTimeoutMs == 15000
\* testServerConnection's default timeout (line 69)
ProbeTimeoutMs == 5000

Statuses == {200, 401, 500}

\* what the transport can do with one fetch, left alone: answer with a
\* status or fail after ms milliseconds, or never settle. (An arrival in the
\* very millisecond of a timer is not modelled: no latency equals a timeout.)
OutcomesWithin(latencies) ==
    [t : {"response"}, status : Statuses, ms : latencies]
        \cup [t : {"reject"}, status : {0}, ms : latencies]
        \cup {[t |-> "none", status |-> 0, ms |-> 0]}

\* a transport that settles promptly or not at all
TransportOutcomes == OutcomesWithin({3000})

\* a transport with a latency in each interval the three timeouts delimit
TimedOutcomes == OutcomesWithin({3000, 7000, 12000, 20000})

Up == [t |-> "response", status |-> 200, ms |-> 3000]
Down == [t |-> "reject", status |-> 0, ms |-> 3000]

\* the network is left unconstrained: any fetch can end in any way
Unconstrained == <<"any">>

\* what the network allows a fetch of baseUrl to end with
Possible(out, baseUrl, net) ==
    IF net = Unconstrained THEN TRUE ELSE out = net[baseUrl]

\* the timer of line 47 fires before the fetch has settled
timerFiresFirst(out, timeoutMs) == out.t = "none" \/ out.ms > timeoutMs

\* awaitSettles without the timer of lines 46-47: only the fetch itself can
\* end the await
awaitSettlesNoTimer(out, timeoutMs) == out.t \in {"response", "reject"}

\* the await of line 50 can end: the fetch settles, or the timer armed at
\* line 47 aborts it
awaitSettles(out, timeoutMs) ==
    out.t \in {"response", "reject"} \/ timerFiresFirst(out, timeoutMs)

\* fetchWithTimeout that ignores its timeoutMs argument and always arms the
\* timer with the default of line 45
fetchWithTimeoutDefaultTimer(out, timeoutMs) ==
    IF timerFiresFirst(out, 10000)
    THEN [thrown |-> TRUE, status |-> 0, elapsed |-> 10000,
          error |-> <<"Request timed out after", 10000>>]
    ELSE IF out.t = "response"
         THEN [thrown |-> FALSE, status |-> out.status, elapsed |-> out.ms, error |-> <<>>]
    ELSE [thrown |-> TRUE, status |-> 0, elapsed |-> out.ms,
          error |-> <<"Network request failed">>]

\* lines 45-63: what the await of line 50 ends with, and after how long.
\* The timer aborts the fetch at timeoutMs (line 47), the AbortError becomes
\* the timeout error (lines 58-59); a fetch that settles first clears the
\* timer (lines 54, 57) and its response is returned or its error rethrown.
fetchWithTimeout(out, timeoutMs) ==
    IF timerFiresFirst(out, timeoutMs)
    THEN [thrown |-> TRUE, status |-> 0, elapsed |-> timeoutMs,
          error |-> <<"Request timed out after", timeoutMs>>]
    ELSE IF out.t = "response"
         THEN [thrown |-> FALSE, status |-> out.status, elapsed |-> out.ms, error |-> <<>>]
    ELSE [thrown |-> TRUE, status |-> 0, elapsed |-> out.ms,
          error |-> <<"Network request failed">>]

\* Response.ok
ok(status) == status >= 200 /\ status <= 299

----------------------------------------------------------------------------
(* plexService.ts: fetchWithFallback, lines 139-223 *)

NoError == <<>>

\* no attempt has ended yet
NoRes == [thrown |-> FALSE, status |-> 0, elapsed |-> 0, error |-> NoError]
NoOutcome == [t |-> "unsent", status |-> 0, ms |-> 0]

\* no HTTP request has been issued
NoRequest == [base |-> NoUri, path |-> "", query |-> {}, headers |-> {}]

\* lines 184-198: the HTTP request of an attempt of fetchWithFallback: the
\* names of the query parameters of its URL and of its headers
callRequest(baseUrl) ==
    [base |-> baseUrl, path |-> "path", query |-> {"X-Plex-Token"}, headers |-> {"Accept"}]

\* lines 81-87: the HTTP request of an attempt of testServerConnection
probeRequest(baseUrl) ==
    [base |-> baseUrl, path |-> "/identity", query |-> {},
     headers |-> {"Accept", "X-Plex-Token"}]

\* `last` keeps what the latest await of fetchWithTimeout ended with,
\* `transport` what the transport did with that fetch and `sent` the HTTP
\* request of the latest attempt
IdleCall ==
    [status |-> "idle", server |-> "A", silent |-> FALSE, timeout |-> 0,
     cached |-> NoUri, afterRace |-> FALSE, sent |-> NoRequest,
     urisToTry |-> <<>>, i |-> 0, log |-> <<>>, last |-> NoRes, transport |-> NoOutcome,
     lastError |-> NoError, response |-> NoUri, error |-> NoError]

\* the loop head (line 188): fetch the next base URI, or leave the loop and
\* throw (line 222)
nextAttempt(call) ==
    IF call.i < Len(call.urisToTry)
    THEN [call EXCEPT !.i = call.i + 1,
                      !.log = Append(call.log, call.urisToTry[call.i + 1]),
                      !.sent = callRequest(call.urisToTry[call.i + 1])]
    ELSE [call EXCEPT !.status = "thrown",
                      !.error = IF call.lastError # NoError THEN call.lastError
                                ELSE <<"No connection URIs available">>]

\* lines 145-188: the call up to its first await
startCall(id, silent, working, raced) ==
    nextAttempt([IdleCall EXCEPT
        !.status = "running", !.server = id, !.silent = silent,
        !.timeout = IF silent THEN SilentTimeoutMs ELSE DefaultTimeoutMs,
        !.cached = working, !.afterRace = raced,
        !.urisToTry = BuildUrisToTry(servers[id], silent, working)])

\* afterAttempt without the `return response` of line 206
afterAttemptNoReturn(call, res) ==
    IF res.thrown THEN nextAttempt([call EXCEPT !.lastError = res.error])
    ELSE IF ok(res.status)
         THEN nextAttempt([call EXCEPT !.response = call.urisToTry[call.i]])
    ELSE nextAttempt([call EXCEPT !.lastError = <<"HTTP", res.status>>])

\* afterAttempt that keeps the first error it recorded
afterAttemptKeepsFirstError(call, res) ==
    LET keep(err) == IF call.lastError # NoError THEN call.lastError ELSE err
    IN  IF res.thrown THEN nextAttempt([call EXCEPT !.lastError = keep(res.error)])
        ELSE IF ok(res.status)
             THEN [call EXCEPT !.status = "returned", !.response = call.urisToTry[call.i]]
        ELSE nextAttempt([call EXCEPT !.lastError = keep(<<"HTTP", res.status>>)])

\* afterAttempt that gives up at a 401 instead of trying the next URI
afterAttemptThrowsOn401(call, res) ==
    IF res.thrown THEN nextAttempt([call EXCEPT !.lastError = res.error])
    ELSE IF ok(res.status)
         THEN [call EXCEPT !.status = "returned", !.response = call.urisToTry[call.i]]
    ELSE IF res.status = 401
         THEN [call EXCEPT !.status = "thrown", !.lastError = <<"HTTP", 401>>,
                           !.error = <<"HTTP", 401>>]
    ELSE nextAttempt([call EXCEPT !.lastError = <<"HTTP", res.status>>])

\* lines 194-219: the loop body after the await of attempt i
afterAttempt(call, res) ==
    IF res.thrown THEN nextAttempt([call EXCEPT !.lastError = res.error])
    ELSE IF ok(res.status)
         THEN [call EXCEPT !.status = "returned", !.response = call.urisToTry[call.i]]
    ELSE nextAttempt([call EXCEPT !.lastError = <<"HTTP", res.status>>])

\* cacheAfterAttempt that forgets the cached endpoint when it fails
cacheClearedOnFailure(call, res, working) ==
    IF ~res.thrown /\ ok(res.status) THEN call.urisToTry[call.i]
    ELSE IF call.urisToTry[call.i] = working THEN NoUri
    ELSE working

\* line 202: the cached endpoint after attempt i of the call
cacheAfterAttempt(call, res, working) ==
    IF ~res.thrown /\ ok(res.status) THEN call.urisToTry[call.i] ELSE working

\* line 446
getWorkingServerUrl(server) ==
    IF workingServerUrl # NoUri THEN workingServerUrl ELSE getServerUrl(server)

----------------------------------------------------------------------------
(* plexService.ts: testServerConnection, lines 67-106 *)

IdleProbe ==
    [status |-> "idle", i |-> 0, log |-> <<>>, seen |-> <<>>,
     last |-> NoRes, transport |-> NoOutcome, sent |-> NoRequest, result |-> FALSE]

\* lines 71-79: no URI -> false, else fetch the first one
startProbe(server) ==
    IF Len(server.connectionUris) = 0
    THEN [IdleProbe EXCEPT !.status = "done", !.result = FALSE]
    ELSE [IdleProbe EXCEPT !.status = "running", !.i = 1,
                           !.log = <<server.connectionUris[1]>>,
                           !.sent = probeRequest(server.connectionUris[1])]

\* line 79: next URI, or lines 104-105
nextProbe(server, probe) ==
    IF probe.i < Len(server.connectionUris)
    THEN [probe EXCEPT !.i = probe.i + 1,
                       !.log = Append(probe.log, server.connectionUris[probe.i + 1]),
                       !.sent = probeRequest(server.connectionUris[probe.i + 1])]
    ELSE [probe EXCEPT !.status = "done", !.result = FALSE]

\* afterProbeAttempt that gives up at a 401
afterProbeAttempt401Aborts(server, probe, res) ==
    LET p == [probe EXCEPT !.seen = Append(probe.seen, res.status)]
    IN  IF res.thrown THEN nextProbe(server, p)
        ELSE IF ok(res.status) THEN [p EXCEPT !.status = "done", !.result = TRUE]
        ELSE IF res.status = 401 THEN [p EXCEPT !.status = "done", !.result = FALSE]
        ELSE nextProbe(server, p)

\* afterProbeAttempt that takes a 401 as proof that the server is reachable
afterProbeAttempt401Reachable(server, probe, res) ==
    LET p == [probe EXCEPT !.seen = Append(probe.seen, res.status)]
    IN  IF res.thrown THEN nextProbe(server, p)
        ELSE IF ok(res.status) THEN [p EXCEPT !.status = "done", !.result = TRUE]
        ELSE IF res.status = 401 THEN [p EXCEPT !.status = "done", !.result = TRUE]
        ELSE nextProbe(server, p)

\* afterProbeAttempt with the verdict kept in one variable shared by the
\* probes in flight: true as soon as any of them has found its server
afterProbeAttemptSharedVerdict(server, probe, res) ==
    LET p == [probe EXCEPT !.seen = Append(probe.seen, res.status)]
        found == \E t \in ServerIds : probes[t].status = "done" /\ probes[t].result
    IN  IF found THEN [p EXCEPT !.status = "done", !.result = TRUE]
        ELSE IF res.thrown THEN nextProbe(server, p)
        ELSE IF ok(res.status) THEN [p EXCEPT !.status = "done", !.result = TRUE]
        ELSE nextProbe(server, p)

\* lines 80-101: the loop body after the await; `seen` keeps what each
\* candidate answered (the status, 0 for a thrown error)
afterProbeAttempt(server, probe, res) ==
    LET p == [probe EXCEPT !.seen = Append(probe.seen, res.status)]
    IN  IF res.thrown THEN nextProbe(server, p)
        ELSE IF ok(res.status) THEN [p EXCEPT !.status = "done", !.result = TRUE]
        ELSE IF res.status = 401 THEN nextProbe(server, p)
        ELSE nextProbe(server, p)

----------------------------------------------------------------------------
(* plexService.ts: filterAccessibleServers, lines 109-128 *)

\* a slot of Promise.all whose promise has not resolved
NoSlot == [server |-> "", accessible |-> FALSE]
\* the call has not returned
NotReturned == <<"pending">>

\* `outOfOrder` keeps whether a probe finished while the probe of a server
\* earlier in the input was still running
IdleFilter ==
    [active |-> FALSE, input |-> <<>>, results |-> <<>>, outOfOrder |-> FALSE,
     returned |-> NotReturned]

\* the position of server s in the input list
indexOf(input, s) == CHOOSE i \in 1..Len(input) : input[i] = s

\* settle that appends the values in the order in which the probes finish
settleInCompletionOrder(results, index, value) ==
    LET free == {i \in 1..Len(results) : results[i] = NoSlot}
        first == CHOOSE i \in free : \A j \in free : i <= j
    IN  [results EXCEPT ![first] = value]

\* Promise.all (line 115): the value of the promise at position index of the
\* input goes to position index of the result
settle(results, index, value) == [results EXCEPT ![index] = value]

\* line 116-119: the value of the mapped promise of a finished probe
slotOf(s, probe) == [server |-> s, accessible |-> probe.result]

\* the slots after the probes that are done among input[1..k] have settled
RECURSIVE settleDone(_, _, _, _)
settleDone(results, input, ps, k) ==
    IF k = 0 THEN results
    ELSE LET before == settleDone(results, input, ps, k - 1)
         IN  IF ps[input[k]].status = "done"
             THEN settle(before, k, slotOf(input[k], ps[input[k]]))
             ELSE before

\* lines 122-124: results.filter(accessible).map(server)
accessibleOf(results) ==
    LET isAccessible(r) == r.accessible
        kept == SelectSeq(results, isAccessible)
    IN  [i \in 1..Len(kept) |-> kept[i].server]

\* the orders in which the descriptors can be handed to the call
InputOrders == {q \in SeqsNoRep(ServerIds, Cardinality(ServerIds)) : Range(q) = ServerIds}

----------------------------------------------------------------------------
(* useFolderCounts (src/src/hooks/useFolderCounts.ts) and                   *)
(* getFolderItemCount (plexService.ts:602-622)                              *)

\* selectedServer = null
NoSelection == "none"

\* the folders the screens pass to the hook; folder f0 has no key
FolderIds == {"f0", "f1", "f2"}
hasKey(folder) == folder # "f0"
FolderLists == {<<>>, <<"f0">>, <<"f1">>, <<"f2">>, <<"f1", "f2">>}

\* the body of a 2xx answer: whether response.json() parses it, and the
\* length of MediaContainer.Metadata (0 also when the field is absent)
Bodies == {[json |-> FALSE, items |-> 0], [json |-> TRUE, items |-> 0],
           [json |-> TRUE, items |-> 2]}

\* getFolderItemCount that lets the error of its request through
getFolderItemCountRethrows(call, body) ==
    IF call.status = "thrown" \/ ~body.json
    THEN [thrown |-> TRUE, count |-> 0]
    ELSE [thrown |-> FALSE, count |-> body.items]

\* plexService.ts:607-621: what the promise of getFolderItemCount settles
\* with once its fetchWithFallback call has ended
getFolderItemCount(call, body) ==
    IF call.status = "thrown" \/ ~body.json
    THEN [thrown |-> FALSE, count |-> 0]
    ELSE [thrown |-> FALSE, count |-> body.items]

\* the continuation of the hook that also records a count of 0
setFolderCountAlways(prev, id, r) ==
    IF r.thrown THEN prev
    ELSE [f \in DOMAIN prev \cup {id} |-> IF f = id THEN r.count ELSE prev[f]]

\* useFolderCounts.ts:29-40: the continuation after the await, applied to
\* the folderCounts of that moment (functional update)
setFolderCount(prev, id, r) ==
    IF r.thrown THEN prev
    ELSE IF r.count > 0
         THEN [f \in DOMAIN prev \cup {id} |-> IF f = id THEN r.count ELSE prev[f]]
    ELSE prev

\* no getFolderItemCount call owns the fetchWithFallback slot
NoOwner == [folder |-> "none", stale |-> FALSE]
NoCount == [folder |-> "none", failed |-> FALSE, thrown |-> FALSE, count |-> 0,
            stale |-> FALSE]

\* useFolderCounts.ts:16, before the first effect
IdleHook ==
    [server |-> NoSelection, folders |-> <<>>, folderCounts |-> <<>>,
     requests |-> [c \in CallIds |-> NoOwner], last |-> NoCount]

\* the fetchWithFallback slots the effect can use, lowest first
idleSlots(reqs, cs) ==
    SelectSeq([i \in 1..Cardinality(CallIds) |-> i],
              LAMBDA c : reqs[c] = NoOwner /\ cs[c].status = "idle")

\* useFolderCounts.ts:26-28: the folders the effect asks a count for
keyed(server, folders) ==
    IF server = NoSelection THEN <<>> ELSE SelectSeq(folders, hasKey)

----------------------------------------------------------------------------
(* PhotosScreen (src/unnamed/part_003) and getPhotosFromLibrary             *)
(* (plexService.ts:327-377). A photo is named by its position in the       *)
(* library section, which the server lists in a fixed order.               *)

\* PAGE_SIZE (part_003:14), scaled down
PageSize == 2

\* the sizes of the library section
LibrarySizes == {0, 1, 4, 7}

\* the body of a 2xx answer: whether response.json() parses it and whether
\* MediaContainer.totalSize is present
PageBodies == {[json |-> FALSE, sized |-> TRUE], [json |-> TRUE, sized |-> TRUE],
               [json |-> TRUE, sized |-> FALSE]}

Max(a, b) == IF a > b THEN a ELSE b

\* the server's answer to X-Plex-Container-Start/Size
page(total, start, limit) ==
    [i \in 1..Max(0, IF limit < total - start THEN limit ELSE total - start) |-> start + i]

\* getPhotosFromLibrary that reports one more page when the last one is full
getPhotosFromLibraryOffByOne(call, body, total, start, limit) ==
    IF call.status = "thrown" \/ ~body.json
    THEN [thrown |-> TRUE, photos |-> <<>>, totalSize |-> 0, hasMore |-> FALSE]
    ELSE LET photos == page(total, start, limit)
             totalSize == IF body.sized /\ total # 0 THEN total ELSE Len(photos)
         IN  [thrown |-> FALSE, photos |-> photos, totalSize |-> totalSize,
              hasMore |-> start + Len(photos) <= totalSize]

\* plexService.ts:334-376: what getPhotosFromLibrary settles with once its
\* fetchWithFallback call has ended
getPhotosFromLibrary(call, body, total, start, limit) ==
    IF call.status = "thrown" \/ ~body.json
    THEN [thrown |-> TRUE, photos |-> <<>>, totalSize |-> 0, hasMore |-> FALSE]
    ELSE LET photos == page(total, start, limit)
             totalSize == IF body.sized /\ total # 0 THEN total ELSE Len(photos)
         IN  [thrown |-> FALSE, photos |-> photos, totalSize |-> totalSize,
              hasMore |-> start + Len(photos) < totalSize]

\* the fetchWithFallback slot carries no request of the screen
NoPage == [kind |-> "none", start |-> 0, old |-> FALSE]
NoResult == [thrown |-> FALSE, photos |-> <<>>, totalSize |-> 0, hasMore |-> FALSE]

\* part_003:19-25, the first render; `total` is the server's library section
IdleTimeline ==
    [total |-> 0, mounted |-> FALSE,
     refreshing |-> FALSE, loading |-> TRUE, loadingMore |-> FALSE,
     photos |-> <<>>, error |-> FALSE, hasMore |-> TRUE, totalCount |-> 0,
     req |-> [c \in CallIds |-> NoPage], lastMore |-> NoPage, result |-> NoResult]

\* part_003:125-158: the grid, with its pull-to-refresh and its end-reached
\* callback, is rendered
gridShown(t) == ~t.loading /\ ~t.error /\ Len(t.photos) # 0

\* loadMorePhotos without the loadingMore guard
canLoadMoreWhileLoading(t) == t.hasMore

\* part_003:66, the guard of loadMorePhotos
canLoadMore(t) == t.hasMore /\ ~t.loadingMore

\* the requests of the screen in flight
inFlight(t, kind) == {c \in CallIds : t.req[c].kind = kind}

\* a fetchWithFallback slot the next request can use
freeSlot(t, cs) ==
    CHOOSE c \in CallIds :
        /\ t.req[c].kind = "none" /\ cs[c].status = "idle"
        /\ \A d \in CallIds : (t.req[d].kind = "none" /\ cs[d].status = "idle") => c <= d
hasFreeSlot(t, cs) == \E c \in CallIds : t.req[c].kind = "none" /\ cs[c].status = "idle"

----------------------------------------------------------------------------
(* AuthContext (src/src/context/AuthContext.tsx). Values are tuples:       *)
(*   null <<>>, a token <<"token", owner>>, the user <<"user">>,           *)
(*   a profile <<"profile", id>>, a server descriptor                      *)
(*   <<"server", machineIdentifier, owner of its accessToken>>,            *)
(*   a library <<"library", key, server whose section it is>>.             *)

NoItem == <<>>
ProfileIds == {"p1", "p2"}
LibraryKeys == {"1", "2"}

UserToken == <<"token", "user">>
PlexUser == <<"user">>
ClientId == <<"client">>
Profile(id) == <<"profile", id>>
AllProfiles == <<Profile("p1"), Profile("p2")>>
profileId(profile) == profile[2]
machineIdentifier(server) == server[2]
sectionKey(library) == library[2]

\* AuthContext.tsx:23-29
STORAGE_KEYS ==
    [AUTH_TOKEN |-> <<"plex_auth_token">>, USER |-> <<"plex_user">>,
     SELECTED_PROFILE |-> <<"plex_selected_profile">>,
     SELECTED_SERVER |-> <<"plex_selected_server">>,
     SELECTED_LIBRARY |-> <<"plex_selected_library">>]

\* `${base}_${profile.id}`
profileKey(base, profile) == base \o <<"_", profileId(profile)>>

StoreKeys ==
    {STORAGE_KEYS[k] : k \in DOMAIN STORAGE_KEYS} \cup
    {profileKey(base, Profile(p)) :
        base \in {STORAGE_KEYS.SELECTED_SERVER, STORAGE_KEYS.SELECTED_LIBRARY},
        p \in ProfileIds}

EmptyStore == [k \in StoreKeys |-> NoItem]

\* JSON.stringify and JSON.parse
stringify(value) == <<"json">> \o value
parse(json) == Tail(json)

\* SecureStore.setItemAsync, deleteItemAsync
setItem(store, k, value) == [store EXCEPT ![k] = value]
deleteItem(store, k) == [store EXCEPT ![k] = NoItem]
RECURSIVE deleteItems(_, _)
deleteItems(store, ks) ==
    IF ks = <<>> THEN store ELSE deleteItems(deleteItem(store, Head(ks)), Tail(ks))

\* AuthContext.tsx:31-43
initialState ==
    [isAuthenticated |-> FALSE, isLoading |-> TRUE, user |-> NoItem,
     selectedProfile |-> NoItem, profiles |-> <<>>, servers |-> <<>>,
     authToken |-> NoItem, clientIdentifier |-> NoItem,
     selectedServer |-> NoItem, selectedLibrary |-> NoItem, libraries |-> <<>>]

\* what plex.tv and the servers answer ---------------------------------------

\* the accessible servers: getResources(token).map(resourceToServer), then
\* filterAccessibleServers; `ids` are the servers that pass, in the order
\* of the resource list
AccessLists == {<<>>, <<"A">>, <<"B">>, <<"A", "B">>}
freshServers(ids, token) == [i \in 1..Len(ids) |-> <<"server", ids[i], token[2]>>]

\* the photo sections of a server (getPhotoLibraries, plexService.ts:226-258)
sectionsOf(s) == IF s = "A" THEN <<"1", "2">> ELSE <<"1">>
librariesOf(server) ==
    LET s == machineIdentifier(server)
    IN  [i \in 1..Len(sectionsOf(s)) |-> <<"library", sectionsOf(s)[i], s>>]

\* the server a base URI leads to
ownerOf(uri) ==
    CHOOSE s \in ServerIds :
        uri \in Range(servers[s].connectionUris) \cup {getServerUrl(servers[s])}

\* the result of getPhotoLibraries(server, server.accessToken): `at` is the
\* base URI at which its fetchWithFallback call got a 2xx answer, NoUri if
\* the call threw (plexService.ts:226-258)
NoLibraries == [thrown |-> TRUE, libraries |-> <<>>]
getPhotoLibraries(server, at) ==
    IF at = NoUri THEN NoLibraries
    ELSE [thrown |-> FALSE, libraries |-> librariesOf(<<"server", ownerOf(at)>>)]

\* the base URIs at which that call can get its answer
answersFor(server, working) ==
    IF server = NoItem THEN {NoUri}
    ELSE {NoUri} \cup Range(BuildUrisToTry(servers[machineIdentifier(server)], FALSE, working))

\* servers.find(s => s.machineIdentifier === saved.machineIdentifier) || null
findServer(list, saved) ==
    LET hits == SelectSeq(list, LAMBDA d : machineIdentifier(d) = machineIdentifier(saved))
    IN  IF hits = <<>> THEN NoItem ELSE hits[1]

\* libraries.find(l => l.key === saved.key) || null
findLibrary(list, saved) ==
    LET hits == SelectSeq(list, LAMBDA l : sectionKey(l) = sectionKey(saved))
    IN  IF hits = <<>> THEN NoItem ELSE hits[1]

\* serverJson ? JSON.parse(serverJson) : null
parsed(json) == IF json = NoItem THEN NoItem ELSE parse(json)

\* RootNavigator (src/unnamed/part_012:20-84): the screen on display
screen(a) ==
    IF a.authToken = NoItem THEN "Login"
    ELSE IF a.selectedProfile = NoItem THEN "ProfileSelection"
    ELSE IF a.selectedServer = NoItem THEN "ServerSelection"
    ELSE IF a.selectedLibrary = NoItem THEN "LibrarySelection"
    ELSE "Main"

\* the handlers: each gives the state and the store it leaves, and whether
\* its promise resolved -----------------------------------------------------

Outcome(a, store, resolved, error) ==
    [auth |-> a, store |-> store, resolved |-> resolved, error |-> error]

\* AuthContext.tsx:68-154; `accessible` and `libs` are the answers it gets
loadSavedAuth(store, profilesAnswer, accessible, at) ==
    LET authToken == store[STORAGE_KEYS.AUTH_TOKEN]
        userJson == store[STORAGE_KEYS.USER]
        selectedProfile == parsed(store[STORAGE_KEYS.SELECTED_PROFILE])
        serverKey == IF selectedProfile # NoItem
                     THEN profileKey(STORAGE_KEYS.SELECTED_SERVER, selectedProfile)
                     ELSE STORAGE_KEYS.SELECTED_SERVER
        savedServer == parsed(store[serverKey])
        libraryKey == IF selectedProfile # NoItem
                      THEN profileKey(STORAGE_KEYS.SELECTED_LIBRARY, selectedProfile)
                      ELSE STORAGE_KEYS.SELECTED_LIBRARY
        savedLibrary == parsed(store[libraryKey])
        list == freshServers(accessible, authToken)
        actualServer == IF savedServer # NoItem THEN findServer(list, savedServer)
                        ELSE NoItem
        libraries == IF actualServer # NoItem
                     THEN getPhotoLibraries(actualServer, at).libraries
                     ELSE <<>>
        actualLibrary == IF savedLibrary # NoItem /\ Len(libraries) > 0
                         THEN findLibrary(libraries, savedLibrary)
                         ELSE NoItem
    IN  IF authToken # NoItem /\ userJson # NoItem
        THEN [isAuthenticated |-> TRUE, isLoading |-> FALSE, user |-> parse(userJson),
              selectedProfile |-> selectedProfile,
              profiles |-> IF profilesAnswer THEN AllProfiles ELSE <<>>,
              servers |-> list, authToken |-> authToken, clientIdentifier |-> ClientId,
              selectedServer |-> actualServer, selectedLibrary |-> actualLibrary,
              libraries |-> libraries]
        ELSE [initialState EXCEPT !.isLoading = FALSE, !.clientIdentifier = ClientId]

\* AuthContext.tsx:164, the number of polls of login
maxAttempts == 150

\* AuthContext.tsx:169-197: login after the poll that carries the token
loginSucceeds(a, store, token, profilesAnswer, accessible) ==
    LET list == freshServers(accessible, token)
    IN  Outcome([a EXCEPT !.isAuthenticated = TRUE, !.isLoading = FALSE,
                          !.user = PlexUser,
                          !.profiles = IF profilesAnswer THEN AllProfiles ELSE <<>>,
                          !.servers = list, !.authToken = token,
                          !.selectedServer = IF list # <<>> THEN list[1] ELSE NoItem],
                setItem(setItem(store, STORAGE_KEYS.AUTH_TOKEN, token),
                        STORAGE_KEYS.USER, stringify(PlexUser)),
                TRUE, NoError)

\* the catch of login without its setState
loginFailsStillLoading(a, store, error) ==
    Outcome(a, store, FALSE, error)

\* AuthContext.tsx:201-205, the catch of login
loginFails(a, store, error) ==
    Outcome([a EXCEPT !.isLoading = FALSE], store, FALSE, error)

\* logout that also forgets what is saved per profile
logoutAllKeys(a, store) ==
    Outcome([initialState EXCEPT !.isLoading = FALSE,
                                 !.clientIdentifier = a.clientIdentifier],
            EmptyStore, TRUE, NoError)

\* AuthContext.tsx:208-217
logout(a, store) ==
    Outcome([initialState EXCEPT !.isLoading = FALSE,
                                 !.clientIdentifier = a.clientIdentifier],
            deleteItems(store, <<STORAGE_KEYS.AUTH_TOKEN, STORAGE_KEYS.USER,
                                 STORAGE_KEYS.SELECTED_PROFILE,
                                 STORAGE_KEYS.SELECTED_SERVER,
                                 STORAGE_KEYS.SELECTED_LIBRARY>>),
            TRUE, NoError)

\* selectProfile that reads the keys that are not profile-specific
selectProfileSharedKeys(a, store, profile, switched, accessible, at) ==
    IF a.authToken = NoItem THEN Outcome(a, store, FALSE, <<"Not authenticated">>)
    ELSE IF ~switched
    THEN Outcome([a EXCEPT !.isLoading = FALSE], store, FALSE,
                 <<"Failed to switch profile">>)
    ELSE
    LET newToken == <<"token", profileId(profile)>>
        store2 == setItem(setItem(store, STORAGE_KEYS.AUTH_TOKEN, newToken),
                          STORAGE_KEYS.SELECTED_PROFILE, stringify(profile))
        list == freshServers(accessible, newToken)
        savedServerJson == store2[STORAGE_KEYS.SELECTED_SERVER]
        selectedServer == IF savedServerJson # NoItem
                          THEN findServer(list, parse(savedServerJson))
                          ELSE NoItem
        libraries == IF selectedServer # NoItem
                     THEN getPhotoLibraries(selectedServer, at).libraries
                     ELSE <<>>
        savedLibraryJson == store2[STORAGE_KEYS.SELECTED_LIBRARY]
        selectedLibrary == IF savedLibraryJson # NoItem /\ Len(libraries) > 0
                           THEN findLibrary(libraries, parse(savedLibraryJson))
                           ELSE NoItem
    IN  Outcome([a EXCEPT !.isLoading = FALSE, !.authToken = newToken,
                          !.selectedProfile = profile, !.servers = list,
                          !.selectedServer = selectedServer,
                          !.selectedLibrary = selectedLibrary,
                          !.libraries = libraries],
                store2, TRUE, NoError)

\* AuthContext.tsx:219-287
selectProfile(a, store, profile, switched, accessible, at) ==
    IF a.authToken = NoItem THEN Outcome(a, store, FALSE, <<"Not authenticated">>)
    ELSE IF ~switched
    THEN Outcome([a EXCEPT !.isLoading = FALSE], store, FALSE,
                 <<"Failed to switch profile">>)
    ELSE
    LET newToken == <<"token", profileId(profile)>>
        store2 == setItem(setItem(store, STORAGE_KEYS.AUTH_TOKEN, newToken),
                          STORAGE_KEYS.SELECTED_PROFILE, stringify(profile))
        list == freshServers(accessible, newToken)
        savedServerJson == store2[profileKey(STORAGE_KEYS.SELECTED_SERVER, profile)]
        selectedServer == IF savedServerJson # NoItem
                          THEN findServer(list, parse(savedServerJson))
                          ELSE NoItem
        libraries == IF selectedServer # NoItem
                     THEN getPhotoLibraries(selectedServer, at).libraries
                     ELSE <<>>
        savedLibraryJson == store2[profileKey(STORAGE_KEYS.SELECTED_LIBRARY, profile)]
        selectedLibrary == IF savedLibraryJson # NoItem /\ Len(libraries) > 0
                           THEN findLibrary(libraries, parse(savedLibraryJson))
                           ELSE NoItem
    IN  Outcome([a EXCEPT !.isLoading = FALSE, !.authToken = newToken,
                          !.selectedProfile = profile, !.servers = list,
                          !.selectedServer = selectedServer,
                          !.selectedLibrary = selectedLibrary,
                          !.libraries = libraries],
                store2, TRUE, NoError)

\* selectServer that saves the selection before it asks the server
selectServerSavesFirst(a, store, server, at) ==
    LET got == getPhotoLibraries(server, at)
        serverKey == IF a.selectedProfile # NoItem
                     THEN profileKey(STORAGE_KEYS.SELECTED_SERVER, a.selectedProfile)
                     ELSE STORAGE_KEYS.SELECTED_SERVER
        store2 == deleteItem(setItem(store, serverKey, stringify(server)),
                             STORAGE_KEYS.SELECTED_LIBRARY)
    IN  IF got.thrown
        THEN Outcome(a, store2, FALSE, <<"getPhotoLibraries">>)
        ELSE Outcome([a EXCEPT !.selectedServer = server, !.selectedLibrary = NoItem,
                               !.libraries = got.libraries],
                     store2, TRUE, NoError)

\* AuthContext.tsx:289-304
selectServer(a, store, server, at) ==
    LET got == getPhotoLibraries(server, at)
        serverKey == IF a.selectedProfile # NoItem
                     THEN profileKey(STORAGE_KEYS.SELECTED_SERVER, a.selectedProfile)
                     ELSE STORAGE_KEYS.SELECTED_SERVER
    IN  IF got.thrown
        THEN Outcome(a, store, FALSE, <<"getPhotoLibraries">>)
        ELSE Outcome([a EXCEPT !.selectedServer = server, !.selectedLibrary = NoItem,
                               !.libraries = got.libraries],
                     deleteItem(setItem(store, serverKey, stringify(server)),
                                STORAGE_KEYS.SELECTED_LIBRARY),
                     TRUE, NoError)

\* AuthContext.tsx:306-314
selectLibrary(a, store, library) ==
    LET libraryKey == IF a.selectedProfile # NoItem
                      THEN profileKey(STORAGE_KEYS.SELECTED_LIBRARY, a.selectedProfile)
                      ELSE STORAGE_KEYS.SELECTED_LIBRARY
    IN  Outcome([a EXCEPT !.selectedLibrary = library],
                setItem(store, libraryKey, stringify(library)), TRUE, NoError)

\* AuthContext.tsx:316-322
clearLibrary(a, store) ==
    Outcome([a EXCEPT !.selectedLibrary = NoItem],
            IF a.selectedProfile # NoItem
            THEN deleteItem(store, profileKey(STORAGE_KEYS.SELECTED_LIBRARY, a.selectedProfile))
            ELSE store,
            TRUE, NoError)

\* AuthContext.tsx:324-331
clearServer(a, store) ==
    Outcome([a EXCEPT !.selectedServer = NoItem, !.selectedLibrary = NoItem,
                      !.libraries = <<>>],
            IF a.selectedProfile # NoItem
            THEN deleteItems(store,
                    <<profileKey(STORAGE_KEYS.SELECTED_SERVER, a.selectedProfile),
                      profileKey(STORAGE_KEYS.SELECTED_LIBRARY, a.selectedProfile)>>)
            ELSE store,
            TRUE, NoError)

\* clearProfile that leaves the selected library in the state
clearProfileKeepsLibrary(a, store) ==
    Outcome([a EXCEPT !.selectedProfile = NoItem, !.selectedServer = NoItem,
                      !.libraries = <<>>],
            deleteItem(store, STORAGE_KEYS.SELECTED_PROFILE), TRUE, NoError)

\* AuthContext.tsx:333-338
clearProfile(a, store) ==
    Outcome([a EXCEPT !.selectedProfile = NoItem, !.selectedServer = NoItem,
                      !.selectedLibrary = NoItem, !.libraries = <<>>],
            deleteItem(store, STORAGE_KEYS.SELECTED_PROFILE), TRUE, NoError)

\* AuthContext.tsx:340-351
refreshServers(a, store, answers, accessible) ==
    IF a.authToken = NoItem \/ ~answers THEN Outcome(a, store, TRUE, NoError)
    ELSE Outcome([a EXCEPT !.servers = freshServers(accessible, a.authToken)],
                 store, TRUE, NoError)

\* AuthContext.tsx:353-366
refreshLibraries(a, store, at) ==
    IF a.selectedServer = NoItem THEN Outcome(a, store, TRUE, NoError)
    ELSE LET got == getPhotoLibraries(a.selectedServer, at)
         IN  IF got.thrown THEN Outcome([a EXCEPT !.isLoading = FALSE], store, TRUE, NoError)
             ELSE Outcome([a EXCEPT !.libraries = got.libraries, !.isLoading = FALSE],
                          store, TRUE, NoError)

\* the run of the app: whether loadSavedAuth has finished, the login call
\* in flight, and how the last operation ended
NoOp == [op |-> "none", resolved |-> TRUE, error |-> NoError]
IdleSession == [booted |-> FALSE, login |-> "idle", polls |-> 0, last |-> NoOp]


----------------------------------------------------------------------------
(* The state machine *)

AllUris ==
    UNION {Range(servers[s].connectionUris) \cup {getServerUrl(servers[s])} : s \in ServerIds}

TypeOK ==
    /\ workingServerUrl \in AllUris \cup {NoUri}
    /\ cacheRaced \in BOOLEAN
    /\ \A c \in CallIds : calls[c].status \in {"idle", "running", "returned", "thrown"}
    /\ \A s \in ServerIds : probes[s].status \in {"idle", "running", "done"}
    /\ filter.active \in BOOLEAN
    /\ filter.returned = NotReturned \/ Range(filter.returned) \subseteq ServerIds

\* the descriptors: server A built by resourceToServer from one of the
\* upstream connection lists in choicesA, server B from one connection or
\* restored from old saved data
InitServers(choicesA) ==
    /\ \E ca \in choicesA, cb \in {<<ConnOther>>, <<>>} :
          resources = [s \in ServerIds |-> Resource(s, IF s = "A" THEN ca ELSE cb)]
    /\ servers = [s \in ServerIds |->
                    IF resources[s].connections = <<>> THEN LegacyServer
                    ELSE resourceToServer(resources[s])]

InitRest ==
    /\ workingServerUrl = NoUri
    /\ cacheRaced = FALSE
    /\ calls = [c \in CallIds |-> IdleCall]
    /\ probes = [s \in ServerIds |-> IdleProbe]
    /\ filter = IdleFilter
    /\ hook = IdleHook
    /\ timeline = IdleTimeline
    /\ auth = initialState
    /\ secureStore = EmptyStore
    /\ session = IdleSession

\* an endpoint comes up or goes down
NetChange(u) ==
    /\ network # Unconstrained
    /\ network' = [network EXCEPT ![u] = IF network[u] = Up THEN Down ELSE Up]
    /\ UNCHANGED <<resources, servers, workingServerUrl, cacheRaced, calls, probes, filter>>
    /\ UNCHANGED appVars

\* a caller (getPhotoLibraries, getFolderItemCount, ...) calls fetchWithFallback
Request(c, id, silent) ==
    /\ calls[c].status = "idle"
    /\ calls' = [calls EXCEPT ![c] = startCall(id, silent, workingServerUrl, cacheRaced)]
    /\ UNCHANGED <<resources, servers, network, workingServerUrl, cacheRaced, probes, filter>>
    /\ UNCHANGED appVars

\* the await of the attempt in flight ends: response, network error or timer
AttemptEnds(c, out) ==
    /\ calls[c].status = "running"
    /\ Possible(out, calls[c].urisToTry[calls[c].i], network)
    /\ awaitSettles(out, calls[c].timeout)
    /\ LET res == fetchWithTimeout(out, calls[c].timeout)
       IN  /\ calls' = [calls EXCEPT ![c] = 
                        [afterAttempt(calls[c], res) EXCEPT !.last = res, !.transport = out]]
           /\ workingServerUrl' = cacheAfterAttempt(calls[c], res, workingServerUrl)
           /\ cacheRaced' = IF ~res.thrown /\ ok(res.status)
                            THEN workingServerUrl # calls[c].cached
                            ELSE cacheRaced
    /\ UNCHANGED <<resources, servers, network, probes, filter>>
    /\ UNCHANGED appVars

\* the caller has consumed the result of a finished call
Collect(c) ==
    /\ calls[c].status \in {"returned", "thrown"}
    /\ calls' = [calls EXCEPT ![c] = IdleCall]
    /\ UNCHANGED <<resources, servers, network, workingServerUrl, cacheRaced, probes, filter>>
    /\ UNCHANGED appVars

\* filterAccessibleServers (lines 114-120): one probe per server of the
\* input, started together
FilterStart(input) ==
    /\ \A s \in ServerIds : probes[s].status = "idle"
    /\ probes' = [s \in ServerIds |->
                    IF s \in Range(input) THEN startProbe(servers[s]) ELSE IdleProbe]
    /\ ~filter.active
    /\ filter' = [IdleFilter EXCEPT
                    !.active = TRUE,
                    !.input = input,
                    !.results = settleDone([i \in 1..Len(input) |-> NoSlot],
                                           input, probes', Len(input))]
    /\ UNCHANGED <<resources, servers, network, workingServerUrl, cacheRaced, calls>>
    /\ UNCHANGED appVars

ProbeAttemptEnds(s, out) ==
    /\ probes[s].status = "running"
    /\ Possible(out, servers[s].connectionUris[probes[s].i], network)
    /\ awaitSettles(out, ProbeTimeoutMs)
    /\ LET res == fetchWithTimeout(out, ProbeTimeoutMs)
           after == afterProbeAttempt(servers[s], probes[s], res)
           k == indexOf(filter.input, s)
       IN  /\ probes' = [probes EXCEPT ![s] =
                            [after EXCEPT !.last = res, !.transport = out]]
           /\ filter' =
                IF after.status = "done"
                THEN [filter EXCEPT
                        !.results = settle(filter.results, k, slotOf(s, after)),
                        !.outOfOrder = filter.outOfOrder \/
                            \E j \in 1..(k - 1) : probes[filter.input[j]].status = "running"]
                ELSE filter
    /\ UNCHANGED <<resources, servers, network, workingServerUrl, cacheRaced, calls>>
    /\ UNCHANGED appVars

\* Promise.all resolves (line 115): every probe has returned; lines 122-127
FilterDone ==
    /\ filter.active
    /\ \A s \in Range(filter.input) : probes[s].status = "done"
    /\ probes' = [s \in ServerIds |-> IdleProbe]
    /\ filter' = [filter EXCEPT !.active = FALSE, !.results = <<>>,
                                !.returned = accessibleOf(filter.results)]
    /\ UNCHANGED <<resources, servers, network, workingServerUrl, cacheRaced, calls>>
    /\ UNCHANGED appVars

----------------------------------------------------------------------------
(* Spec: the requests of one caller at a time, any descriptor with at most  *)
(* MaxConns connections, any network behaviour                             *)

Init ==
    /\ InitServers(SeqsNoRep(PoolA, MaxConns) \ {<<>>})
    /\ network = Unconstrained
    /\ InitRest

Next ==
    \/ \E id \in ServerIds, silent \in BOOLEAN : Request(1, id, silent)
    \/ \E out \in TransportOutcomes : AttemptEnds(1, out)
    \/ Collect(1)

Spec == Init /\ [][Next]_vars

(* SpecProbe: filterAccessibleServers alone, same descriptors *)

NextProbe ==
    \/ \E input \in InputOrders : FilterStart(input)
    \/ \E s \in ServerIds, out \in TransportOutcomes : ProbeAttemptEnds(s, out)
    \/ FilterDone

SpecProbe == Init /\ [][NextProbe]_vars

(* SpecBoth: the probes interleaved with the requests of one caller, for    *)
(* every upstream order of the connections of PoolOrder, over a transport  *)
(* that settles every fetch before its timer: the endpoint answers 200,    *)
(* answers 401, or refuses the connection                                  *)

SettledOutcomes ==
    {out \in TransportOutcomes : out.t = "reject" \/ (out.t = "response" /\ out.status # 500)}

PoolOrder == {ConnLocal, ConnRemoteA, ConnRemoteB}

InitBoth ==
    /\ InitServers(SeqsNoRep(PoolOrder, Cardinality(PoolOrder)) \ {<<>>})
    /\ network = Unconstrained
    /\ InitRest

NextBoth ==
    \/ \E id \in ServerIds, silent \in BOOLEAN : Request(1, id, silent)
    \/ \E out \in SettledOutcomes : AttemptEnds(1, out)
    \/ Collect(1)
    \/ FilterStart(<<"A", "B">>)
    \/ \E s \in ServerIds, out \in SettledOutcomes : ProbeAttemptEnds(s, out)
    \/ FilterDone

SpecBoth == InitBoth /\ [][NextBoth]_vars

(* SpecRace: two callers at once over a network whose endpoints go up and   *)
(* down between the calls (an endpoint keeps its behaviour for the length  *)
(* of the calls in flight)                                                 *)

RaceChoices == {<<ConnLocal, ConnRemoteA>>}

NoCallRunning == \A c \in CallIds : calls[c].status # "running"

InitRace ==
    /\ InitServers(RaceChoices)
    /\ resources["B"].connections = <<ConnOther>>
    /\ network = [u \in AllUris |-> Down]
    /\ InitRest

NextRace ==
    \/ NoCallRunning /\ \E u \in AllUris : NetChange(u)
    \/ \E c \in CallIds, id \in ServerIds, silent \in BOOLEAN : Request(c, id, silent)
    \/ \E c \in CallIds, out \in TransportOutcomes : AttemptEnds(c, out)
    \/ \E c \in CallIds : Collect(c)

SpecRace == InitRace /\ [][NextRace]_vars

(* SpecNet: filterAccessibleServers over a network in which every endpoint  *)
(* keeps one behaviour: it answers 200 or 401, refuses, or never answers   *)

Unauthorized == [t |-> "response", status |-> 401, ms |-> 3000]
Hangs == [t |-> "none", status |-> 0, ms |-> 0]

InitNet ==
    /\ InitServers(RaceChoices)
    /\ network \in [AllUris -> {Up, Down, Unauthorized, Hangs}]
    /\ InitRest

SpecNet == InitNet /\ [][NextProbe]_vars

(* SpecLoad: the descriptors as loadSavedAuth builds them: every resource   *)
(* plex.tv lists goes through resourceToServer, the descriptors it yields  *)
(* are probed, and a request is made for a server of the filtered list     *)

PoolLoad == [A |-> {ConnLocal, ConnRemoteA}, B |-> {ConnOther, ConnLocalB}]

\* AuthContext.tsx:103: resources.map(resourceToServer).filter(s => s !== null),
\* in the order of the resources
allServerOrders ==
    {q \in SeqsNoRep(ServerIds, Cardinality(ServerIds)) :
        Range(q) = {s \in ServerIds : servers[s] # NoServer}}

InitLoad ==
    /\ resources \in [ServerIds -> [name : ServerIds, provides : {"server", "client"},
                                     clientIdentifier : ServerIds,
                                     connections : SeqsNoRep(PoolLoad["A"] \cup PoolLoad["B"], 2)]]
    /\ \A s \in ServerIds :
          /\ resources[s].name = s
          /\ resources[s].clientIdentifier = s
          /\ Range(resources[s].connections) \subseteq PoolLoad[s]
    /\ servers = [s \in ServerIds |-> resourceToServer(resources[s])]
    /\ network = Unconstrained
    /\ InitRest

NextLoad ==
    \/ calls[1].status = "idle" /\ \E input \in allServerOrders : FilterStart(input)
    \/ \E s \in ServerIds, out \in TransportOutcomes : ProbeAttemptEnds(s, out)
    \/ FilterDone
    \/ /\ filter.returned # NotReturned
       /\ \E id \in Range(filter.returned), silent \in BOOLEAN : Request(1, id, silent)
    \/ \E out \in TransportOutcomes : AttemptEnds(1, out)
    \/ Collect(1)

SpecLoad == InitLoad /\ [][NextLoad]_vars

(* SpecTime: the requests of one caller and the probes, one after the      *)
(* other, over a transport whose latencies fall before and after each of   *)
(* the three timeouts                                                      *)

NoProbeRunning == \A s \in ServerIds : probes[s].status = "idle"

InitTime ==
    /\ InitServers(RaceChoices)
    /\ resources["B"].connections = <<ConnOther>>
    /\ network = Unconstrained
    /\ InitRest

NextTime ==
    \/ NoProbeRunning /\ \E id \in ServerIds, silent \in BOOLEAN : Request(1, id, silent)
    \/ \E out \in TimedOutcomes : AttemptEnds(1, out)
    \/ Collect(1)
    \/ calls[1].status = "idle" /\ FilterStart(<<"A", "B">>)
    \/ \E s \in ServerIds, out \in TimedOutcomes : ProbeAttemptEnds(s, out)
    \/ FilterDone

SpecTime == InitTime /\ [][NextTime]_vars

(* SpecLive: the same steps over a network in which every endpoint keeps    *)
(* one behaviour. The event loop runs every callback that is due: a fetch  *)
(* that has settled, or the timer of an attempt, ends the await.           *)

SpecLive ==
    /\ InitNet
    /\ [][NextTime]_vars
    /\ WF_vars(\E out \in TimedOutcomes : AttemptEnds(1, out))
    /\ \A s \in ServerIds : WF_vars(\E out \in TimedOutcomes : ProbeAttemptEnds(s, out))

----------------------------------------------------------------------------
(* SpecCounts: the folder counts of a screen whose folder list changes     *)

\* useFolderCounts.ts:18-43: the effect runs for new props; every request
\* is started before the effect returns, and nothing is cancelled
EffectRuns(server, folders) ==
    LET ask == keyed(server, folders)
        free == idleSlots(hook.requests, calls)
    IN  /\ Len(ask) <= Len(free)
        /\ calls' = [c \in CallIds |->
                       IF \E k \in 1..Len(ask) : free[k] = c
                       THEN startCall(server, TRUE, workingServerUrl, cacheRaced)
                       ELSE calls[c]]
        /\ hook' = [hook EXCEPT
                      !.server = server,
                      !.folders = folders,
                      !.folderCounts = <<>>,
                      !.requests = [c \in CallIds |->
                          IF \E k \in 1..Len(ask) : free[k] = c
                          THEN [folder |-> ask[CHOOSE k \in 1..Len(ask) : free[k] = c],
                                stale |-> FALSE]
                          ELSE IF hook.requests[c] = NoOwner THEN NoOwner
                          ELSE [hook.requests[c] EXCEPT !.stale = TRUE]]]
        /\ UNCHANGED <<resources, servers, network, workingServerUrl, cacheRaced,
                       probes, filter, timeline, auth, secureStore, session>>

\* the promise of a getFolderItemCount call settles and the hook continues
CountArrives(c, body) ==
    /\ hook.requests[c] # NoOwner
    /\ calls[c].status \in {"returned", "thrown"}
    /\ LET r == getFolderItemCount(calls[c], body)
           own == hook.requests[c]
       IN  hook' = [hook EXCEPT
                      !.folderCounts = setFolderCount(@, own.folder, r),
                      !.requests[c] = NoOwner,
                      !.last = [folder |-> own.folder,
                                failed |-> calls[c].status = "thrown" \/ ~body.json,
                                thrown |-> r.thrown, count |-> r.count,
                                stale |-> own.stale]]
    /\ calls' = [calls EXCEPT ![c] = IdleCall]
    /\ UNCHANGED <<resources, servers, network, workingServerUrl, cacheRaced,
                   probes, filter, timeline, auth, secureStore, session>>

\* what an attempt of a count request ends with: a 2xx answer or a refusal
CountOutcomes == {o \in SettledOutcomes : o.t = "reject" \/ ok(o.status)}

InitCounts ==
    /\ resources = [s \in ServerIds |->
                      Resource(s, IF s = "A" THEN <<ConnLocal>> ELSE <<ConnOther>>)]
    /\ servers = [s \in ServerIds |-> resourceToServer(resources[s])]
    /\ network = Unconstrained
    /\ InitRest

NextCounts ==
    \/ \E server \in {"A", NoSelection}, folders \in FolderLists : EffectRuns(server, folders)
    \/ \E c \in CallIds, out \in CountOutcomes : AttemptEnds(c, out)
    \/ \E c \in CallIds, body \in Bodies : CountArrives(c, body)

SpecCounts == InitCounts /\ [][NextCounts]_vars

----------------------------------------------------------------------------
(* SpecTimeline: the timeline with pull-to-refresh and load-more;          *)
(* SpecPaging: the same without pull-to-refresh                            *)

\* part_003:85-87 with 27-50: the effect of the first render calls
\* fetchPhotos, which runs up to its await
Mounts ==
    /\ ~timeline.mounted
    /\ hasFreeSlot(timeline, calls)
    /\ LET c == freeSlot(timeline, calls)
       IN  /\ timeline' = [timeline EXCEPT !.mounted = TRUE, !.error = FALSE,
                                           !.req[c] = [NoPage EXCEPT !.kind = "fetch"]]
           /\ calls' = [calls EXCEPT ![c] = startCall("A", FALSE, workingServerUrl, cacheRaced)]
    /\ UNCHANGED <<resources, servers, network, workingServerUrl, cacheRaced,
                   probes, filter, hook, auth, secureStore, session>>

\* part_003:106-110 with 27-50: handleRefresh; the refresh control does not
\* start a second refresh while `refreshing`
Refresh ==
    /\ gridShown(timeline) /\ ~timeline.refreshing
    /\ hasFreeSlot(timeline, calls)
    /\ LET c == freeSlot(timeline, calls)
       IN  /\ timeline' = [timeline EXCEPT
                  !.refreshing = TRUE, !.hasMore = TRUE, !.error = FALSE,
                  !.req = [d \in CallIds |->
                             IF d = c THEN [NoPage EXCEPT !.kind = "fetch"]
                             ELSE IF @[d].kind = "more" THEN [@[d] EXCEPT !.old = TRUE]
                             ELSE @[d]]]
           /\ calls' = [calls EXCEPT ![c] = startCall("A", FALSE, workingServerUrl, cacheRaced)]
    /\ UNCHANGED <<resources, servers, network, workingServerUrl, cacheRaced,
                   probes, filter, hook, auth, secureStore, session>>

\* part_003:50-62: fetchPhotos after its await
FetchPhotosEnds(c, body) ==
    /\ timeline.req[c].kind = "fetch"
    /\ calls[c].status \in {"returned", "thrown"}
    /\ LET result == getPhotosFromLibrary(calls[c], body, timeline.total, 0, PageSize)
       IN  timeline' =
             IF result.thrown
             THEN [timeline EXCEPT !.error = TRUE, !.loading = FALSE,
                                   !.refreshing = FALSE, !.req[c] = NoPage,
                                   !.result = result]
             ELSE [timeline EXCEPT !.photos = result.photos,
                                   !.hasMore = result.hasMore,
                                   !.totalCount = result.totalSize,
                                   !.loading = FALSE, !.refreshing = FALSE,
                                   !.req[c] = NoPage, !.result = result]
    /\ calls' = [calls EXCEPT ![c] = IdleCall]
    /\ UNCHANGED <<resources, servers, network, workingServerUrl, cacheRaced,
                   probes, filter, hook, auth, secureStore, session>>

\* part_003:112-114 with 65-74: handleEndReached calls loadMorePhotos, which
\* runs up to its await
LoadMoreStarts ==
    /\ gridShown(timeline)
    /\ canLoadMore(timeline)
    /\ hasFreeSlot(timeline, calls)
    /\ LET c == freeSlot(timeline, calls)
       IN  /\ timeline' = [timeline EXCEPT
                  !.loadingMore = TRUE,
                  !.req[c] = [kind |-> "more", start |-> Len(timeline.photos),
                              old |-> FALSE]]
           /\ calls' = [calls EXCEPT ![c] = startCall("A", FALSE, workingServerUrl, cacheRaced)]
    /\ UNCHANGED <<resources, servers, network, workingServerUrl, cacheRaced,
                   probes, filter, hook, auth, secureStore, session>>

\* part_003:74-82: loadMorePhotos after its await
LoadMoreEnds(c, body) ==
    /\ timeline.req[c].kind = "more"
    /\ calls[c].status \in {"returned", "thrown"}
    /\ LET result == getPhotosFromLibrary(calls[c], body, timeline.total,
                                          timeline.req[c].start, PageSize)
       IN  timeline' =
             IF result.thrown
             THEN [timeline EXCEPT !.loadingMore = FALSE, !.req[c] = NoPage,
                                   !.lastMore = timeline.req[c], !.result = result]
             ELSE [timeline EXCEPT !.photos = timeline.photos \o result.photos,
                                   !.hasMore = result.hasMore,
                                   !.loadingMore = FALSE, !.req[c] = NoPage,
                                   !.lastMore = timeline.req[c], !.result = result]
    /\ calls' = [calls EXCEPT ![c] = IdleCall]
    /\ UNCHANGED <<resources, servers, network, workingServerUrl, cacheRaced,
                   probes, filter, hook, auth, secureStore, session>>

\* the screen before its first effect, for a server with the connections
\* `conns` and a library section of one of the `sizes`
InitScreen(conns, sizes) ==
    /\ resources = [s \in ServerIds |->
                      Resource(s, IF s = "A" THEN conns ELSE <<ConnOther>>)]
    /\ servers = [s \in ServerIds |-> resourceToServer(resources[s])]
    /\ network = Unconstrained
    /\ workingServerUrl = NoUri
    /\ cacheRaced = FALSE
    /\ calls = [c \in CallIds |-> IdleCall]
    /\ probes = [s \in ServerIds |-> IdleProbe]
    /\ filter = IdleFilter
    /\ hook = IdleHook
    /\ \E total \in sizes : timeline = [IdleTimeline EXCEPT !.total = total]
    /\ auth = initialState
    /\ secureStore = EmptyStore
    /\ session = IdleSession

InitPaging == InitScreen(<<ConnLocal, ConnRemoteA>>, LibrarySizes)
InitTimeline == InitScreen(<<ConnLocal>>, LibrarySizes)

NextPaging ==
    \/ Mounts
    \/ \E c \in CallIds, out \in CountOutcomes : AttemptEnds(c, out)
    \/ \E c \in CallIds, body \in PageBodies : FetchPhotosEnds(c, body)
    \/ LoadMoreStarts
    \/ \E c \in CallIds, body \in PageBodies : LoadMoreEnds(c, body)

NextTimeline ==
    \/ NextPaging
    \/ Refresh

SpecPaging == InitPaging /\ [][NextPaging]_vars
SpecTimeline == InitTimeline /\ [][NextTimeline]_vars

----------------------------------------------------------------------------
(* SpecAuth: the operations of the auth context, one at a time, from the   *)
(* screens RootNavigator puts on display                                   *)

\* the operation `op` ends with `out`; `at` is where its getPhotoLibraries
\* call, if it made one, was answered
Ends2(op, out, at) ==
    /\ auth' = out.auth
    /\ secureStore' = out.store
    /\ session' = [session EXCEPT
                     !.last = [op |-> op, resolved |-> out.resolved, error |-> out.error]]
    /\ workingServerUrl' = IF at # NoUri THEN at ELSE workingServerUrl
    /\ UNCHANGED <<resources, servers, network, cacheRaced, calls, probes, filter,
                   hook, timeline>>

\* AuthContext.tsx:64-66: the provider mounts and loadSavedAuth runs
Boots(profilesAnswer, accessible, at) ==
    /\ ~session.booted
    /\ at \in answersFor(loadSavedAuth(secureStore, profilesAnswer, accessible, NoUri)
                            .selectedServer, workingServerUrl)
    /\ auth' = loadSavedAuth(secureStore, profilesAnswer, accessible, at)
    /\ session' = [session EXCEPT !.booted = TRUE]
    /\ workingServerUrl' = IF at # NoUri THEN at ELSE workingServerUrl
    /\ UNCHANGED <<resources, servers, network, cacheRaced, calls, probes, filter,
                   hook, timeline, secureStore>>

\* the app is closed and opened again: the state and the module variables
\* are gone, the secure store stays
Restart ==
    /\ session.booted
    /\ auth' = initialState
    /\ session' = IdleSession
    /\ workingServerUrl' = NoUri
    /\ UNCHANGED <<resources, servers, network, cacheRaced, calls, probes, filter,
                   hook, timeline, secureStore>>

\* AuthContext.tsx:156-161: login up to its first poll; the button of the
\* login screen is disabled while isLoading (src/unnamed/part_005:42-44)
LoginStarts(pinCreated) ==
    /\ session.booted /\ screen(auth) = "Login" /\ ~auth.isLoading
    /\ session.login = "idle"
    /\ IF pinCreated
       THEN /\ auth' = [auth EXCEPT !.isLoading = TRUE]
            /\ session' = [session EXCEPT !.login = "polling", !.polls = 0]
            /\ UNCHANGED <<secureStore, workingServerUrl>>
            /\ UNCHANGED <<resources, servers, network, cacheRaced, calls, probes,
                           filter, hook, timeline>>
       ELSE Ends2("login", loginFails(auth, secureStore, <<"Failed to create PIN">>), NoUri)

\* AuthContext.tsx:165-200: one round of the polling loop
Poll(answer, userAnswer, profilesAnswer, accessible) ==
    /\ session.login = "polling"
    /\ session.polls < maxAttempts
    /\ LET polled == [session EXCEPT !.polls = session.polls + 1]
           ends(out) ==
               /\ auth' = out.auth
               /\ secureStore' = out.store
               /\ session' = [polled EXCEPT
                                !.login = "idle",
                                !.last = [op |-> "login", resolved |-> out.resolved,
                                          error |-> out.error]]
       IN  CASE answer = "error" ->
                  ends(loginFails(auth, secureStore, <<"Failed to check PIN">>))
             [] answer = "token" /\ ~userAnswer ->
                  ends(loginFails(auth, secureStore, <<"Failed to get user">>))
             [] answer = "token" /\ userAnswer ->
                  ends(loginSucceeds(auth, secureStore, UserToken, profilesAnswer, accessible))
             [] answer = "pending" /\ polled.polls = maxAttempts ->
                  ends(loginFails(auth, secureStore, <<"Authentication timed out">>))
             [] OTHER ->
                  /\ session' = polled
                  /\ UNCHANGED <<auth, secureStore>>
    /\ UNCHANGED <<resources, servers, network, workingServerUrl, cacheRaced, calls,
                   probes, filter, hook, timeline>>

\* the sign-out buttons (part_004:329, part_005:228, ProfileOptionsScreen)
Logout ==
    /\ session.booted
    /\ screen(auth) \in {"ProfileSelection", "LibrarySelection", "Main"}
    /\ Ends2("logout", logout(auth, secureStore), NoUri)

\* part_004:242-283: a profile of the list is pressed
SelectProfile(profile, switched, accessible, at) ==
    /\ session.booted /\ screen(auth) = "ProfileSelection"
    /\ profile \in Range(auth.profiles)
    /\ at \in answersFor(selectProfile(auth, secureStore, profile, switched, accessible, NoUri)
                            .auth.selectedServer, workingServerUrl)
    /\ (~switched => at = NoUri)
    /\ Ends2("selectProfile",
             selectProfile(auth, secureStore, profile, switched, accessible, at), at)

ClearProfile ==
    /\ session.booted /\ screen(auth) \in {"LibrarySelection", "Main"}
    /\ Ends2("clearProfile", clearProfile(auth, secureStore), NoUri)

\* ServerSelectionScreen.tsx:22-47: a server of the list is pressed
SelectServer(server, at) ==
    /\ session.booted /\ screen(auth) = "ServerSelection"
    /\ server \in Range(auth.servers)
    /\ at \in answersFor(server, workingServerUrl)
    /\ Ends2("selectServer", selectServer(auth, secureStore, server, at), at)

ClearServer ==
    /\ session.booted /\ screen(auth) \in {"LibrarySelection", "Main"}
    /\ Ends2("clearServer", clearServer(auth, secureStore), NoUri)

\* part_005:180 and the library dropdown of the main screens
SelectLibrary(library) ==
    /\ session.booted /\ screen(auth) \in {"LibrarySelection", "Main"}
    /\ library \in Range(auth.libraries)
    /\ Ends2("selectLibrary", selectLibrary(auth, secureStore, library), NoUri)

ClearLibrary ==
    /\ session.booted /\ screen(auth) = "Main"
    /\ Ends2("clearLibrary", clearLibrary(auth, secureStore), NoUri)

\* ServerSelectionScreen.tsx:93
RefreshServers(answers, accessible) ==
    /\ session.booted /\ screen(auth) = "ServerSelection"
    /\ Ends2("refreshServers", refreshServers(auth, secureStore, answers, accessible), NoUri)

\* part_005:172-175, 201
RefreshLibraries(at) ==
    /\ session.booted /\ screen(auth) = "LibrarySelection"
    /\ at \in answersFor(auth.selectedServer, workingServerUrl)
    /\ Ends2("refreshLibraries", refreshLibraries(auth, secureStore, at), at)

InitAuth ==
    /\ resources = [s \in ServerIds |->
                      Resource(s, IF s = "A" THEN <<ConnLocal>> ELSE <<ConnOther>>)]
    /\ servers = [s \in ServerIds |-> resourceToServer(resources[s])]
    /\ network = Unconstrained
    /\ InitRest

NextAuth ==
    \/ \E pa \in BOOLEAN, acc \in AccessLists, at \in AllUris \cup {NoUri} : Boots(pa, acc, at)
    \/ Restart
    \/ \E pinCreated \in BOOLEAN : LoginStarts(pinCreated)
    \/ \E answer \in {"error", "token"}, ua \in BOOLEAN, pa \in BOOLEAN,
          acc \in AccessLists : Poll(answer, ua, pa, acc)
    \/ Logout
    \/ \E p \in ProfileIds, switched \in BOOLEAN, acc \in AccessLists,
          at \in AllUris \cup {NoUri} : SelectProfile(Profile(p), switched, acc, at)
    \/ ClearProfile
    \/ \E s \in ServerIds, t \in {"user"} \cup ProfileIds, at \in AllUris \cup {NoUri} :
          SelectServer(<<"server", s, t>>, at)
    \/ ClearServer
    \/ \E k \in LibraryKeys, s \in ServerIds : SelectLibrary(<<"library", k, s>>)
    \/ ClearLibrary
    \/ \E answers \in BOOLEAN, acc \in AccessLists : RefreshServers(answers, acc)
    \/ \E at \in AllUris \cup {NoUri} : RefreshLibraries(at)

SpecAuth == InitAuth /\ [][NextAuth]_vars

\* SpecLogin: sign-in and sign-out, with PIN polls that stay pending
NextLogin ==
    \/ \E pa \in BOOLEAN, acc \in AccessLists, at \in AllUris \cup {NoUri} : Boots(pa, acc, at)
    \/ Restart
    \/ \E pinCreated \in BOOLEAN : LoginStarts(pinCreated)
    \/ \E answer \in {"pending", "error", "token"}, ua \in BOOLEAN, pa \in BOOLEAN,
          acc \in AccessLists : Poll(answer, ua, pa, acc)
    \/ Logout

SpecLogin == InitAuth /\ [][NextLogin]_vars

----------------------------------------------------------------------------
(* Properties *)

Started(c) == calls[c].status # "idle"
Candidates(c) == servers[calls[c].server].connectionUris
Last(q) == q[Len(q)]
IsPrefix(p, q) == Len(p) <= Len(q) /\ p = SubSeq(q, 1, Len(p))
NoDuplicates(q) == \A i, j \in 1..Len(q) : i # j => q[i] # q[j]

\* C1: the first URI that answers 2xx ends the call: the call returns the
\* response of that URI, which is the last URI it contacted, every URI
\* contacted before it had failed, and the URIs after it in the list are
\* never contacted.
C1_FirstSuccessReturns ==
    \A c \in CallIds :
        /\ IsPrefix(calls[c].log, calls[c].urisToTry)
        /\ calls[c].response # NoUri <=> calls[c].status = "returned"
        /\ calls[c].status = "returned" =>
              /\ calls[c].log # <<>>
              /\ calls[c].response = Last(calls[c].log)
              /\ calls[c].i = Len(calls[c].log)
        /\ calls[c].status = "running" => calls[c].i = Len(calls[c].log)

\* a call returned by its second URI while a third was still in its list
C1_Witness ==
    \E c \in CallIds :
        /\ calls[c].status = "returned"
        /\ Len(calls[c].log) = 2
        /\ Len(calls[c].urisToTry) >= 3
        /\ calls[c].lastError # NoError

OwnUris(id) == Range(servers[id].connectionUris) \cup {getServerUrl(servers[id])}

\* C3: workingServerUrl changes only in the step in which an attempt of a
\* call receives a 2xx response, and then becomes the base URI of that
\* attempt; every step that ends a call with a 2xx writes it; the steps of a
\* probe, failed attempts and exhausted calls leave it unchanged; it is never
\* reset to empty.
C3_CacheWrittenOnlyBySuccess ==
    [][ /\ workingServerUrl' # workingServerUrl =>
              \E c \in CallIds :
                  /\ calls[c].status = "running"
                  /\ calls'[c].status = "returned"
                  /\ workingServerUrl' = calls[c].urisToTry[calls[c].i]
        /\ \A c \in CallIds :
              (calls[c].status = "running" /\ calls'[c].status = "returned")
                  => workingServerUrl' = calls'[c].response
        /\ probes' # probes => workingServerUrl' = workingServerUrl
        /\ workingServerUrl # NoUri => workingServerUrl' # NoUri
      ]_vars

\* with an endpoint cached, a probe has succeeded on another URI and a call
\* that started from the cached endpoint is exhausted: the cache is as it was
C3_Witness ==
    /\ workingServerUrl # NoUri
    /\ probes["A"].status = "done" /\ probes["A"].result
    /\ Last(probes["A"].log) # workingServerUrl
    /\ calls[1].status = "thrown"
    /\ calls[1].cached = workingServerUrl
    /\ Len(calls[1].log) >= 3

\* C4: the cached endpoint a call for server D tries first is an endpoint of
\* D, never one recorded for another server, and so is the base URL that
\* getWorkingServerUrl(D) returns for the server of a call.
C4_CachedEndpointOfSameServer ==
    \A c \in CallIds :
        Started(c) =>
            /\ calls[c].cached # NoUri => calls[c].cached \in OwnUris(calls[c].server)
            /\ getWorkingServerUrl(servers[calls[c].server]) \in OwnUris(calls[c].server)

\* C5: a silent call that finds an endpoint cached attempts that endpoint and
\* nothing else; when the attempt fails the call throws its error.
C5_SilentTriesCachedOnly ==
    \A c \in CallIds :
        (Started(c) /\ calls[c].silent /\ calls[c].cached # NoUri) =>
            /\ calls[c].log = <<calls[c].cached>>
            /\ calls[c].status = "thrown" =>
                  calls[c].error = calls[c].lastError /\ calls[c].error # NoError

\* a silent call failed on the cached endpoint of a descriptor that has
\* candidates it did not scan
C5_Witness ==
    \E c \in CallIds :
        /\ calls[c].status = "thrown"
        /\ calls[c].silent
        /\ calls[c].cached # NoUri
        /\ Len(Candidates(c)) >= 2
        /\ calls[c].cached \in Range(Candidates(c))

\* the order the policy prescribes: the cached endpoint, the remaining
\* candidates in descriptor order, the synthesized fallback unless listed
PolicyOrder(id, cached) ==
    LET cands == servers[id].connectionUris
        rest == [i \in {j \in 1..Len(cands) : cands[j] # cached} |-> cands[i]]
        ranked == {i \in DOMAIN rest : TRUE}
        RECURSIVE inOrder(_)
        inOrder(S) == IF S = {} THEN <<>>
                      ELSE LET m == CHOOSE i \in S : \A j \in S : i <= j
                           IN  <<cands[m]>> \o inOrder(S \ {m})
        head == IF cached # NoUri THEN <<cached>> ELSE <<>>
        body == head \o inOrder(ranked)
        fb == getServerUrl(servers[id])
    IN  IF fb \in Range(body) THEN body ELSE Append(body, fb)

\* C7: a call that scans (it is not silent, or nothing is cached) attempts
\* the URIs in the order of the policy, and an exhausted call has attempted
\* all of them.
C7_PolicyOrder ==
    \A c \in CallIds :
        (Started(c) /\ ~(calls[c].silent /\ calls[c].cached # NoUri)) =>
            /\ IsPrefix(calls[c].log, PolicyOrder(calls[c].server, calls[c].cached))
            /\ calls[c].status = "thrown" =>
                  calls[c].log = PolicyOrder(calls[c].server, calls[c].cached)

\* an exhausted call whose cached endpoint was the third candidate and whose
\* fallback is not a candidate: cached, first, second candidate, fallback
C7_Witness ==
    \E c \in CallIds :
        /\ calls[c].status = "thrown"
        /\ ~calls[c].silent
        /\ Len(Candidates(c)) = 3
        /\ calls[c].cached = Candidates(c)[3]
        /\ calls[c].log = <<Candidates(c)[3], Candidates(c)[1], Candidates(c)[2],
                            getServerUrl(servers[calls[c].server])>>

\* the position of the first candidate of the server that is up, 0 if none is
FirstUp(id) ==
    LET cands == servers[id].connectionUris
        up == {i \in 1..Len(cands) : network[cands[i]] = Up}
    IN  IF up = {} THEN 0 ELSE CHOOSE i \in up : \A j \in up : i <= j

\* the step in which call c ends
Ends(c) == calls[c].status = "running" /\ calls'[c].status \in {"returned", "thrown"}

\* call c ends with a 2xx of an endpoint that is up, which is cached, after at
\* most one failed attempt more than the plain scan of the candidates makes
SelfCorrects(c) ==
    /\ calls'[c].status = "returned"
    /\ workingServerUrl' = calls'[c].response
    /\ network[workingServerUrl'] = Up
    /\ Len(calls'[c].log) <= FirstUp(calls[c].server) + 1

\* C6 as stated: whatever call follows a race on the cache, it succeeds and
\* corrects the cache whenever a candidate of its descriptor is up.
C6_AnyRequestSelfCorrects ==
    [][ \A c \in CallIds :
            (Ends(c) /\ calls[c].afterRace /\ FirstUp(calls[c].server) > 0)
                => SelfCorrects(c) ]_vars

\* C6, amended: a call that is not silent succeeds and corrects the cache
\* whenever a candidate of its descriptor is up, at the cost of at most one
\* extra failed attempt; a silent call that finds a stale endpoint cached
\* fails after that single attempt and leaves the cache as it is.
C6_ScanSelfCorrects ==
    [][ \A c \in CallIds :
            /\ (Ends(c) /\ ~calls[c].silent /\ FirstUp(calls[c].server) > 0)
                  => SelfCorrects(c)
            /\ (Ends(c) /\ calls[c].silent /\ calls[c].cached # NoUri
                        /\ network[calls[c].cached] = Down)
                  => /\ calls'[c].status = "thrown"
                     /\ Len(calls'[c].log) = 1
                     /\ workingServerUrl' = workingServerUrl ]_vars

\* after a race on the cache, a call found the cached endpoint down, scanned,
\* succeeded on a candidate and cached it
C6_Witness ==
    \E c \in CallIds :
        /\ calls[c].status = "returned"
        /\ ~calls[c].silent
        /\ calls[c].afterRace
        /\ calls[c].cached # NoUri
        /\ Len(calls[c].log) = 2
        /\ calls[c].log[1] = calls[c].cached
        /\ calls[c].response \in Range(Candidates(c))
        /\ workingServerUrl = calls[c].response

\* the URIs of the connections of a resource that are local (or not), in the
\* order plex.tv listed them
UrisWhere(conns, isLocal) ==
    LET pick(c) == c.local = isLocal
        sel == SelectSeq(conns, pick)
    IN  [i \in 1..Len(sel) |-> sel[i].uri]

RemoteFirst(id) ==
    UrisWhere(resources[id].connections, FALSE) \o UrisWhere(resources[id].connections, TRUE)

Min(a, b) == IF a <= b THEN a ELSE b

C9_ProbeScansAll ==
    \A s \in ServerIds :
        LET p == probes[s]
            n == Len(servers[s].connectionUris)
        IN  /\ IsPrefix(p.log, servers[s].connectionUris)
            /\ \A k \in 1..Len(p.seen) :
                  ok(p.seen[k]) => (k = Len(p.seen) /\ p.status = "done" /\ p.result)
            /\ p.status = "running" => Len(p.seen) = Len(p.log) - 1
            /\ p.status = "done" =>
                  /\ Len(p.seen) = Len(p.log)
                  /\ p.result => (p.seen # <<>> /\ ok(Last(p.seen)))
                  /\ ~p.result => Len(p.seen) = n

\* a probe that got a 401 from its first candidate and a 2xx from a later one
C9_Witness ==
    \E s \in ServerIds :
        /\ probes[s].status = "done"
        /\ probes[s].result
        /\ Len(probes[s].seen) >= 2
        /\ probes[s].seen[1] = 401

\* a finished probe that got a 401 and no 2xx
Only401(s) ==
    /\ probes[s].status = "done"
    /\ \E k \in 1..Len(probes[s].seen) : probes[s].seen[k] = 401
    /\ \A k \in 1..Len(probes[s].seen) : ~ok(probes[s].seen[k])

\* C10 as stated: a probe that got a 401 and no 2xx does not return false.
C10_NotUnreachableOn401 ==
    \A s \in ServerIds : Only401(s) => probes[s].result

\* C10, amended: a 401 does not make the probe return false at once, the
\* remaining candidates are still attempted; but a probe that got a 401 and
\* no 2xx from any candidate does return false.
C10_FalseAfterAll401 ==
    \A s \in ServerIds :
        Only401(s) =>
            /\ ~probes[s].result
            /\ probes[s].log = servers[s].connectionUris

\* a probe of three candidates got a 401 from the first one, attempted the
\* other two and returned false
C10_Witness ==
    \E s \in ServerIds :
        /\ probes[s].status = "done"
        /\ ~probes[s].result
        /\ Len(probes[s].seen) = 3
        /\ probes[s].seen[1] = 401
        /\ probes[s].seen[2] # 401 /\ probes[s].seen[3] # 401

\* the latest attempt of the call failed: an error was thrown or the answer
\* was not a 2xx
LastFailed(call) == call.last.thrown \/ ~ok(call.last.status)

\* C11: a failed attempt (401, another non-2xx status, network error or
\* timeout) never ends the call while an untried URI remains: the call goes
\* on to the next URI of its list; it throws only in the step in which the
\* attempt of the last URI of the list fails, having attempted every URI.
C11_RejectsOnlyOnExhaustion ==
    [][ \A c \in CallIds :
            (calls[c].status = "running" /\ calls'[c] # calls[c]) =>
                /\ (LastFailed(calls'[c]) /\ calls[c].i < Len(calls[c].urisToTry)) =>
                      /\ calls'[c].status = "running"
                      /\ calls'[c].i = calls[c].i + 1
                      /\ calls'[c].log =
                            Append(calls[c].log, calls[c].urisToTry[calls[c].i + 1])
                /\ calls'[c].status = "thrown" =>
                      /\ LastFailed(calls'[c])
                      /\ calls[c].i = Len(calls[c].urisToTry)
                      /\ calls'[c].log = calls[c].urisToTry
                      /\ calls'[c].response = NoUri
                /\ ~LastFailed(calls'[c]) => calls'[c].status = "returned" ]_vars

\* a call went on after a 401 of its first URI and is exhausted after four
\* attempts, the last of which answered 401 as well
C11_Witness ==
    \E c \in CallIds :
        /\ calls[c].status = "thrown"
        /\ Len(calls[c].log) >= 4
        /\ calls[c].log = calls[c].urisToTry
        /\ calls[c].last.status = 401

\* the error line 212 or line 218 records for an attempt that ended with res
\* in a call whose timeout is timeoutMs
ErrorOfAttempt(res, timeoutMs) ==
    IF ~res.thrown THEN <<"HTTP", res.status>>
    ELSE IF res.error[1] = "Request timed out after"
         THEN <<"Request timed out after", timeoutMs>>
    ELSE <<"Network request failed">>

\* C12: an exhausted call rejects with the error of the attempt of the last
\* URI of its list: "HTTP <status>" when that URI answered a non-2xx
\* status, the thrown error when the fetch failed or timed out.
C12_RejectsWithLastError ==
    \A c \in CallIds :
        calls[c].status = "thrown" =>
            /\ calls[c].error = ErrorOfAttempt(calls[c].last, calls[c].timeout)
            /\ calls[c].error # NoError
            /\ calls[c].error # <<"HTTP", 200>>

\* a call is exhausted after three or more attempts, the last of which timed
\* out, and rejects with the timeout error of its own timeout
C12_Witness ==
    \E c \in CallIds :
        /\ calls[c].status = "thrown"
        /\ Len(calls[c].log) >= 3
        /\ calls[c].last.thrown
        /\ calls[c].error = <<"Request timed out after", DefaultTimeoutMs>>

\* the call is for a descriptor without candidate URIs and found nothing cached
NothingToScan(c) == Started(c) /\ Candidates(c) = <<>> /\ calls[c].cached = NoUri

\* C13 as stated: a call for a descriptor without candidate URIs that finds
\* nothing cached ends by rejecting with the generic error
\* 'No connection URIs available', not with the error of an HTTP attempt.
C13_NoCandidatesGenericError ==
    \A c \in CallIds :
        (NothingToScan(c) /\ calls[c].status \in {"returned", "thrown"}) =>
            /\ calls[c].status = "thrown"
            /\ calls[c].error = <<"No connection URIs available">>

\* C13, amended: such a call attempts the URL synthesized from the
\* descriptor's scheme, address and port, once; it returns the response of a
\* 2xx, and otherwise rejects with the error of that attempt. No call
\* rejects with 'No connection URIs available'.
C13_NoCandidatesTriesSynthesized ==
    \A c \in CallIds :
        /\ NothingToScan(c) =>
              /\ calls[c].log = <<getServerUrl(servers[calls[c].server])>>
              /\ calls[c].status = "returned" =>
                    calls[c].response = getServerUrl(servers[calls[c].server])
              /\ calls[c].status = "thrown" =>
                    calls[c].error = ErrorOfAttempt(calls[c].last, calls[c].timeout)
        /\ calls[c].error # <<"No connection URIs available">>

\* a call for a descriptor without candidate URIs got a 500 from the
\* synthesized URL and rejected with "HTTP 500"
C13_Witness ==
    \E c \in CallIds :
        /\ NothingToScan(c)
        /\ calls[c].status = "thrown"
        /\ calls[c].error = <<"HTTP", 500>>

\* the attempt failed with the timeout-tagged error
TimedOut(res) ==
    res.thrown /\ res.error # NoError /\ res.error[1] = "Request timed out after"

\* an attempt with timeout t, for which the transport did `out`, ended with
\* res: with the timeout error of t, at t, when nothing had arrived by then;
\* with what the transport delivered, when it arrived, before t, otherwise
TimedRight(out, res, t) ==
    IF out.t = "none" \/ out.ms > t
    THEN /\ res.thrown
         /\ res.error = <<"Request timed out after", t>>
         /\ res.elapsed = t
    ELSE /\ ~TimedOut(res)
         /\ res.elapsed = out.ms
         /\ res.elapsed < t
         /\ out.t = "response" => (~res.thrown /\ res.status = out.status)
         /\ out.t = "reject" => res.thrown

\* C14: an attempt whose fetch has not settled when its timer fires fails
\* then, and not earlier, with 'Request timed out after <timeoutMs>ms' of its
\* own timeoutMs; an attempt whose fetch settles first ends with that
\* response or error and not with a timeout; after a timeout a call or a
\* probe goes on to its next URI, or ends as exhausted when there is none.
C14_TimeoutAborts ==
    /\ \A c \in CallIds :
          calls[c].last # NoRes =>
              /\ TimedRight(calls[c].transport, calls[c].last, calls[c].timeout)
              /\ (TimedOut(calls[c].last) /\ calls[c].status = "running") =>
                    /\ calls[c].i >= 2
                    /\ Last(calls[c].log) = calls[c].urisToTry[calls[c].i]
              /\ (TimedOut(calls[c].last) /\ calls[c].status # "running") =>
                    /\ calls[c].status = "thrown"
                    /\ calls[c].log = calls[c].urisToTry
                    /\ calls[c].error = <<"Request timed out after", calls[c].timeout>>
    /\ \A s \in ServerIds :
          probes[s].last # NoRes =>
              /\ TimedRight(probes[s].transport, probes[s].last, ProbeTimeoutMs)
              /\ (TimedOut(probes[s].last) /\ probes[s].status = "running") =>
                    /\ probes[s].i = Len(probes[s].seen) + 1
                    /\ Last(probes[s].log) = servers[s].connectionUris[probes[s].i]
              /\ (TimedOut(probes[s].last) /\ probes[s].status # "running") =>
                    /\ probes[s].status = "done"
                    /\ ~probes[s].result
                    /\ probes[s].log = servers[s].connectionUris

\* a call with the default timeout was answered 200 after 12 s by the last
\* URI of its list: the attempt timed out at 10 s and the call rejected
\* with that timeout error
C14_Witness ==
    \E c \in CallIds :
        /\ calls[c].status = "thrown"
        /\ Len(calls[c].log) >= 2
        /\ calls[c].transport = [t |-> "response", status |-> 200, ms |-> 12000]
        /\ calls[c].last.elapsed = DefaultTimeoutMs
        /\ calls[c].error = <<"Request timed out after", DefaultTimeoutMs>>

\* what probing server s alone gives over the network as it is: true exactly
\* when one of its candidates answers 2xx
ReachableAlone(s) ==
    \E i \in 1..Len(servers[s].connectionUris) :
        LET out == network[servers[s].connectionUris[i]]
        IN  out.t = "response" /\ ok(out.status)

\* C15: the probes that filterAccessibleServers runs concurrently do not
\* interfere: the step of one probe changes the state of that probe only
\* (no other probe's, and not the cached endpoint), and however the attempts
\* interleave each probe ends with the result that probing its server alone
\* over the same network gives.
C15_ProbesIndependent ==
    [][ /\ \A s \in ServerIds :
              (probes[s].status = "running" /\ probes'[s] # probes[s]) =>
                  /\ \A t \in ServerIds \ {s} : probes'[t] = probes[t]
                  /\ UNCHANGED <<servers, network, workingServerUrl, calls>>
        /\ \A s \in ServerIds :
              probes'[s].status = "done" => probes'[s].result = ReachableAlone(s)
      ]_vars

\* server A has been found reachable by its second candidate while the only
\* attempt of the probe of server B, whose endpoint is down, is in flight
C15_Witness ==
    /\ network # Unconstrained
    /\ probes["A"].status = "done"
    /\ probes["A"].result
    /\ Len(probes["A"].log) = 2
    /\ probes["B"].status = "running"
    /\ network[servers["B"].connectionUris[1]] = Down

\* C16: filterAccessibleServers returns when every probe has returned, and
\* returns the servers of its input whose probe returned true, each once
\* and in the order of the input, in whatever order the probes finished;
\* until then the result of a finished probe sits in the slot of its
\* server's position in the input.
C16_FilterKeepsInputOrder ==
    [][ /\ \A k \in 1..Len(filter'.results) :
              filter'.results[k] # NoSlot =>
                  /\ probes'[filter'.input[k]].status = "done"
                  /\ filter'.results[k] =
                        [server |-> filter'.input[k],
                         accessible |-> probes'[filter'.input[k]].result]
        /\ (filter.returned = NotReturned /\ filter'.returned # NotReturned) =>
              LET accessible(s) == probes[s].result
              IN  /\ \A s \in Range(filter.input) : probes[s].status = "done"
                  /\ filter'.returned = SelectSeq(filter.input, accessible)
                  /\ NoDuplicates(filter'.returned)
      ]_vars

\* both servers were found accessible, the probe of the second server of
\* the input finished before the probe of the first, and the call returned
\* the two in the order of the input
C16_Witness ==
    /\ filter.returned # NotReturned
    /\ Len(filter.returned) = 2
    /\ filter.returned = filter.input
    /\ filter.outOfOrder

\* the HTTP request carries the token as the query parameter X-Plex-Token
\* of its URL and not as a header
TokenInQueryOnly(req) ==
    "X-Plex-Token" \in req.query /\ "X-Plex-Token" \notin req.headers

\* C17: every HTTP request issued by an attempt of a call or of a probe
\* carries the token as the URL query parameter X-Plex-Token and not as a
\* request header.
C17_TokenInQueryNotHeader ==
    /\ \A c \in CallIds : calls[c].sent # NoRequest => TokenInQueryOnly(calls[c].sent)
    /\ \A s \in ServerIds : probes[s].sent # NoRequest => TokenInQueryOnly(probes[s].sent)

\* the full scan of a server: its candidates in descriptor order, then the
\* synthesized URL unless it is one of them
FullScan(id) ==
    LET cands == servers[id].connectionUris
        fb == getServerUrl(servers[id])
    IN  IF fb \in Range(cands) THEN cands ELSE cands \o <<fb>>

\* C18: a silent call that finds nothing cached scans like a call that is
\* not silent: its list is all candidates followed by the synthesized
\* fallback, it attempts them in that order, and it rejects only after
\* having attempted all of them.
C18_SilentScansWithoutCache ==
    \A c \in CallIds :
        (Started(c) /\ calls[c].silent /\ calls[c].cached = NoUri) =>
            /\ calls[c].urisToTry = FullScan(calls[c].server)
            /\ calls[c].urisToTry = BuildUrisToTry(servers[calls[c].server], FALSE, NoUri)
            /\ IsPrefix(calls[c].log, FullScan(calls[c].server))
            /\ calls[c].status = "thrown" => calls[c].log = FullScan(calls[c].server)

\* a silent call found nothing cached, attempted three candidates and the
\* synthesized fallback, and is exhausted
C18_Witness ==
    \E c \in CallIds :
        /\ calls[c].status = "thrown"
        /\ calls[c].silent
        /\ calls[c].cached = NoUri
        /\ Len(Candidates(c)) = 3
        /\ Len(calls[c].log) = 4
        /\ Last(calls[c].log) = getServerUrl(servers[calls[c].server])

\* the servers that are in the hands of the program: probed, listed as
\* input or result of filterAccessibleServers, or target of a call
InUse ==
    {s \in ServerIds : probes[s].status # "idle"}
        \cup Range(filter.input)
        \cup (IF filter.returned = NotReturned THEN {} ELSE Range(filter.returned))
        \cup {calls[c].server : c \in {d \in CallIds : Started(d)}}

\* C19: a resource that does not provide 'server', or has no connections,
\* yields no descriptor; the candidate list of a descriptor holds exactly
\* the URIs of the connections of its resource, one each, and is not empty;
\* every server that is probed, listed or requested has such a descriptor.
C19_CandidatesNeverEmpty ==
    /\ \A s \in ServerIds :
          /\ servers[s] = NoServer <=>
                (resources[s].provides # "server" \/ resources[s].connections = <<>>)
          /\ servers[s] # NoServer =>
                /\ servers[s].connectionUris # <<>>
                /\ Len(servers[s].connectionUris) = Len(resources[s].connections)
                /\ Range(servers[s].connectionUris) =
                      {conn.uri : conn \in Range(resources[s].connections)}
    /\ \A s \in InUse :
          /\ servers[s] # NoServer
          /\ servers[s].connectionUris # <<>>

\* of two resources, one yields no descriptor because it lists no
\* connections; the other has been probed, listed, and a call for it has
\* scanned its two candidates
C19_Witness ==
    /\ resources["A"].provides = "server"
    /\ resources["A"].connections = <<>>
    /\ servers["A"] = NoServer
    /\ filter.returned = <<"B">>
    /\ calls[1].status = "returned"
    /\ calls[1].server = "B"
    /\ Len(calls[1].log) = 2
    /\ Range(calls[1].log) = {conn.uri : conn \in Range(resources["B"].connections)}

\* C20: every call and every probe terminates: a call that is running
\* eventually returns or rejects, a probe that is running eventually
\* returns, also when an endpoint never answers.
C20_CallsAndProbesTerminate ==
    /\ \A c \in CallIds :
          (calls[c].status = "running") ~> (calls[c].status \in {"returned", "thrown"})
    /\ \A s \in ServerIds :
          (probes[s].status = "running") ~> (probes[s].status = "done")

\* a call is exhausted after an attempt on an endpoint that never answers
\* ended by its timer
C20_Witness ==
    \E c \in CallIds :
        /\ network # Unconstrained
        /\ calls[c].status = "thrown"
        /\ Len(calls[c].log) >= 2
        /\ network[Last(calls[c].log)] = Hangs
        /\ TimedOut(calls[c].last)

----------------------------------------------------------------------------
(* C21: getFolderItemCount never lets an error through: when its silent    *)
(* request fails (no endpoint answers 2xx, or the body is not JSON) its    *)
(* promise resolves with 0, and the hook's continuation then leaves        *)
(* folderCounts as it was.                                                 *)

\* the getFolderItemCount call of slot c settles in this step
Settles(c) == hook.requests[c] # NoOwner /\ hook'.requests[c] = NoOwner

C21_FailedCountIsZeroAndUnrecorded ==
    [][\A c \in CallIds :
         (Settles(c) /\ hook'.last.failed) =>
            /\ calls[c].silent /\ calls[c].timeout = SilentTimeoutMs
            /\ ~hook'.last.thrown
            /\ hook'.last.count = 0
            /\ hook'.folderCounts = hook.folderCounts]_vars

\* a request whose every attempt failed has settled with 0 beside a folder
\* that has its count
C21_Witness ==
    /\ hook.last.failed /\ hook.last.count = 0 /\ ~hook.last.stale
    /\ hook.folders = <<"f1", "f2">>
    /\ DOMAIN hook.folderCounts = {"f2"}
    /\ hook.last.folder = "f1"

----------------------------------------------------------------------------
(* C28: the counts belong to the current folder list: the answer to a      *)
(* request started for an earlier list never writes into folderCounts.     *)

C28_LateCountNeverWritten ==
    [][\A c \in CallIds :
         (Settles(c) /\ hook.requests[c].stale) =>
            hook'.folderCounts = hook.folderCounts]_vars

----------------------------------------------------------------------------
(* C29: whatever the interleaving of a pull-to-refresh with a load-more in *)
(* flight, the list has no photo twice and is a contiguous prefix of the   *)
(* library; a page asked for before the refresh is never appended to the   *)
(* refreshed list.                                                         *)

C29_ListIsContiguousPrefix ==
    timeline.photos = [i \in 1..Len(timeline.photos) |-> i]

----------------------------------------------------------------------------
(* C30: without a refresh, load-more requests ask for contiguous,          *)
(* non-overlapping pages: each starts at the number of photos loaded, none *)
(* is issued while another is in flight or once hasMore is false, the page *)
(* is appended, and hasMore is true exactly when start + returned is below *)
(* the total size of the answer.                                           *)

\* the load-more request of slot c is issued, or settles, in this step
MoreIssued(c) == timeline.req[c].kind # "more" /\ timeline'.req[c].kind = "more"
MoreSettles(c) == timeline.req[c].kind = "more" /\ timeline'.req[c].kind # "more"
Prefix(n) == [i \in 1..n |-> i]

----------------------------------------------------------------------------
(* C22: selectServer verifies before it commits: when getPhotoLibraries    *)
(* fails, selectServer rejects and leaves the secure store and the auth    *)
(* state as they were; the selection is saved and the state updated only   *)
(* after the libraries were fetched.                                       *)

serverKeyOf(a) ==
    IF a.selectedProfile # NoItem
    THEN profileKey(STORAGE_KEYS.SELECTED_SERVER, a.selectedProfile)
    ELSE STORAGE_KEYS.SELECTED_SERVER
libraryKeyOf(a) ==
    IF a.selectedProfile # NoItem
    THEN profileKey(STORAGE_KEYS.SELECTED_LIBRARY, a.selectedProfile)
    ELSE STORAGE_KEYS.SELECTED_LIBRARY

C22_SelectServerVerifiesFirst ==
    [][\A server \in Range(auth.servers), at \in AllUris \cup {NoUri} :
         SelectServer(server, at) =>
            IF at = NoUri
            THEN /\ ~session'.last.resolved
                 /\ auth' = auth
                 /\ secureStore' = secureStore
            ELSE /\ session'.last.resolved
                 /\ auth'.selectedServer = server
                 /\ auth'.selectedLibrary = NoItem
                 /\ auth'.libraries = getPhotoLibraries(server, at).libraries
                 /\ secureStore'[serverKeyOf(auth)] = stringify(server)]_vars

\* selectServer was rejected while another server is saved for the profile
C22_Witness ==
    /\ session.last.op = "selectServer" /\ ~session.last.resolved
    /\ auth.selectedProfile = Profile("p1") /\ auth.selectedServer = NoItem
    /\ secureStore[serverKeyOf(auth)] # NoItem

----------------------------------------------------------------------------
(* C23: after a successful selectServer no saved library selection is left *)
(* for the current profile, neither in the state nor in the secure store,  *)
(* so that a later loadSavedAuth or selectProfile has nothing to restore.  *)

C23_NoSavedLibraryAfterSelectServer ==
    [][\A server \in Range(auth.servers), at \in AllUris :
         SelectServer(server, at) =>
            /\ auth'.selectedLibrary = NoItem
            /\ secureStore'[libraryKeyOf(auth)] = NoItem]_vars

----------------------------------------------------------------------------
(* C24: clearProfile followed by selectProfile(P) restores the selection   *)
(* of P: a server selected under P is saved under P's key, clearProfile    *)
(* and whatever is done under another profile leave P's keys alone, and    *)
(* selectProfile(P) selects the fresh descriptor with the machine          *)
(* identifier saved under P's key if it is among the accessible servers,   *)
(* and nothing that was saved under another key.                           *)

profileKeys(p) ==
    {profileKey(STORAGE_KEYS.SELECTED_SERVER, Profile(p)),
     profileKey(STORAGE_KEYS.SELECTED_LIBRARY, Profile(p))}

C24_ProfileSelectionRestored ==
    [][/\ (auth.selectedProfile # NoItem /\ auth.selectedServer # NoItem) =>
            /\ secureStore[serverKeyOf(auth)] # NoItem
            /\ machineIdentifier(parse(secureStore[serverKeyOf(auth)]))
                  = machineIdentifier(auth.selectedServer)
       /\ \A p \in ProfileIds :
            (auth.selectedProfile # Profile(p)) =>
                \A k \in profileKeys(p) : secureStore'[k] = secureStore[k]
       /\ \A p \in ProfileIds, acc \in AccessLists, at \in AllUris \cup {NoUri} :
            SelectProfile(Profile(p), TRUE, acc, at) =>
               LET saved == secureStore[profileKey(STORAGE_KEYS.SELECTED_SERVER, Profile(p))]
                   fresh == <<"server", machineIdentifier(parse(saved)), p>>
               IN  /\ auth'.selectedProfile = Profile(p)
                   /\ auth'.servers = freshServers(acc, <<"token", p>>)
                   /\ IF saved # NoItem /\ includes(acc, machineIdentifier(parse(saved)))
                      THEN auth'.selectedServer = fresh
                      ELSE auth'.selectedServer = NoItem
                   /\ auth'.selectedLibrary # NoItem =>
                         LET lib == secureStore[profileKey(STORAGE_KEYS.SELECTED_LIBRARY,
                                                           Profile(p))]
                         IN  /\ lib # NoItem
                             /\ sectionKey(auth'.selectedLibrary) = sectionKey(parse(lib))]_vars

\* p1 is selected again and gets its server A back, while p2 has saved B
C24_Witness ==
    /\ session.last.op = "selectProfile" /\ session.last.resolved
    /\ auth.selectedProfile = Profile("p1")
    /\ auth.selectedServer = <<"server", "A", "p1">>
    /\ secureStore[profileKey(STORAGE_KEYS.SELECTED_SERVER, Profile("p2"))]
          = stringify(<<"server", "B", "p2">>)
    /\ secureStore[STORAGE_KEYS.SELECTED_SERVER] = NoItem

----------------------------------------------------------------------------
(* C25: in every reachable auth state a selected library implies a         *)
(* selected server and a selected server implies an auth token; the main   *)
(* screens are on display only when token, profile, server and library     *)
(* are all set.                                                            *)

----------------------------------------------------------------------------
(* C27: after logout the secure store holds no auth token, no user, no     *)
(* selected profile and no saved server or library, those saved per        *)
(* profile included, and the state is the initial state but for isLoading  *)
(* false and the client identifier.                                        *)

C27_LogoutForgetsEverything ==
    [][Logout =>
         /\ \A k \in StoreKeys : secureStore'[k] = NoItem
         /\ auth' = [initialState EXCEPT !.isLoading = FALSE,
                                         !.clientIdentifier = auth.clientIdentifier]]_vars

----------------------------------------------------------------------------
(* C26: login terminates after at most 150 polls of the PIN.               *)
(* As claimed: it resolves at the first poll that carries an auth token    *)
(* and otherwise rejects with 'Authentication timed out'.                  *)
(* As the code has it: it resolves at the first poll that carries a token  *)
(* if the user can then be fetched, rejects with 'Authentication timed     *)
(* out' exactly when the 150th poll comes back without a token, and        *)
(* rejects with the error of the failing step otherwise; whenever it       *)
(* rejects, isLoading is false again and isAuthenticated, authToken and    *)
(* the stored credentials are what they were.                              *)

LoginStep ==
    \/ \E pinCreated \in BOOLEAN : LoginStarts(pinCreated)
    \/ \E answer \in {"pending", "error", "token"}, ua \in BOOLEAN, pa \in BOOLEAN,
          acc \in AccessLists : Poll(answer, ua, pa, acc)

====
